---- MODULE Spec2Model ----
(***************************************************************************)
(* Stockham FFT kernel generator of hcFFT (lib/src/generator.stockham.cpp) *)
(*                                                                         *)
(* Spec         : the host-side planner.  GetKernelGenKeyPvt selects the   *)
(*                work-group geometry (lookup table or DetermineSizes),    *)
(*                the Kernel constructor breaks the length into passes,    *)
(*                GetWorkSizesPvt derives the launch geometry.             *)
(* SpecTwiddle  : TwiddleTable::GenerateTwiddleTable, one table entry per  *)
(*                step, run on a bounded set of radix sequences.           *)
(* SpecBarrier  : the work-items of one work-group running the pass chain  *)
(*                emitted by Pass::GeneratePass in half-LDS mode.          *)
(* SpecSweep    : the planner followed by Pass::SweepRegs emitting the     *)
(*                store statements of the last pass, or by GenerateKernel  *)
(*                emitting the pass functions and their calls.             *)
(* SpecSpecial  : the work-items of one work-group in the two-iteration    *)
(*                loop of a realSpecial kernel.                            *)
(* SpecGrid     : the work-groups of a launch taking their transforms      *)
(*                (Kernel::OffsetCalc).                                    *)
(* SpecRepo     : a client calling the plan repository FFTRepo.            *)
(* SpecConc     : two threads in FFTRepo, one generating the kernel of a   *)
(*                plan, one deleting a plan; SpecConcFair adds weak        *)
(*                fairness of each thread.                                 *)
(* SpecHip      : a client calling the hipfft wrappers.                    *)
(*                                                                         *)
(* assert() is modelled as enabled: a failing assertion ends planning in   *)
(* pc = "fatal" with err naming the assertion.                             *)
(***************************************************************************)
EXTENDS Integers, Sequences, FiniteSets, TLC

(***************************************************************************)
(* Bounds of the model                                                     *)
(***************************************************************************)
\* every length 1..MaxLen is planned ...
MaxLen == 70
\* ... for every device work-group limit MinWGS..MaxWGSLimit
MaxWGSLimit == 256
\* number of logical 1-D transforms handed to GetWorkSizesPvt: 1..MaxT
MaxT == 5

\* assert(MAX_WGS >= 64) in DetermineSizes
MinWGS == 64

\* lengths above MaxLen that sit on the thresholds of DetermineSizes and of
\* the lookup table
ThresholdLengths ==
  { 81, 121, 125, 128, 169, 243, 256, 343, 512, 625, 729, 1024, 1331,
    2048, 2187, 2197, 4096, 8192,
    96, 100, 144, 160, 210, 420, 1536, 2310, 3000 }

Lengths == (1..MaxLen) \cup ThresholdLengths

Precisions == {"P_SINGLE", "P_DOUBLE"}

VARIABLES
  pc,        \* position of the host-side planner
  err,       \* "none" or the assertion that ended planning
  length,    \* params.fft_N[0]
  pr,        \* precision of the plan
  MAX_WGS,   \* envelope.limit_WorkGroupSize
  fromTable, \* geometry taken from the lookup table (not DetermineSizes)
  wgs,       \* work-group size chosen by GetKernelGenKeyPvt
  nt,        \* transforms per work-group chosen by GetKernelGenKeyPvt
  fft_R,     \* params.fft_R
  fft_SIMD,  \* params.fft_SIMD
  numTrans,  \* Kernel::numTrans
  cnPerWI,   \* Kernel::cnPerWI
  LS,        \* Kernel constructor: LS
  R,         \* Kernel constructor: R (remaining factor)
  radices,   \* Kernel::radices
  passes,    \* Kernel::passes
  numPasses, \* Kernel::numPasses (-1 until it is assigned)
  count,     \* GetWorkSizesPvt: total number of logical 1-D transforms T
  realHalf,  \* GetWorkSizesPvt: real transform that is not RC-simple
  globalWS,  \* GetWorkSizesPvt: global work size
  localWS,   \* GetWorkSizesPvt: local work size
  N,         \* TwiddleTable::N
  twRadices, \* GenerateTwiddleTable: the radices argument
  tw,        \* GenerateTwiddleTable: its locals and the array wc
  batchSize, \* generated kernel: number of transforms of the launch
  wi,        \* generated kernel: per work-item position and registers
  lds,       \* generated kernel: the tile_static array lds
  grid,      \* launch grid: the work-groups started and the transforms they took
  repo,      \* FFTRepo: repoPlans, planCount, mapFFTs, and the heap of plans and locks
  ret,       \* FFTRepo: the last call, its arguments, status and outputs
  hist,      \* the client of FFTRepo: what it created, set and released so far
  hip,       \* hipfft wrappers: the last call and what came back
  existRadices, \* GenerateKernelPvt, exist = true: the radices of the twiddle table
  sweep,     \* the store statements SweepRegs emitted for the write back of the last pass
  kern,      \* GenerateKernel: the pass functions and the pass calls it emitted
  conc       \* FFTRepo under two threads: the locks, the heap and each thread's position

planVars == << pc, err, length, pr, MAX_WGS, fromTable, wgs, nt, fft_R, fft_SIMD,
               numTrans, cnPerWI, LS, R, radices, passes, numPasses,
               count, realHalf, globalWS, localWS >>

twVars == << N, twRadices, tw >>

runVars == << batchSize, wi, lds >>

gridVars == << grid >>

\* state outside planning, table building and the run of one work-group
repoVars == << repo, ret, hist >>

hipVars == << hip >>

existVars == << existRadices >>

sweepVars == << sweep >>

kernVars == << kern >>

concVars == << conc >>

libVars == << gridVars, repoVars, hipVars, existVars, sweepVars, kernVars, concVars >>

vars == << planVars, twVars, runVars, libVars >>

(***************************************************************************)
(* KernelCoreSpecs: the lookup table                                       *)
(***************************************************************************)
SpecRecord(len, w, n, np, rad) ==
  [length |-> len, workGroupSize |-> w, numTransforms |-> n, numPasses |-> np,
   radices |-> rad]

RADIX_TABLE_COMMON ==
  { SpecRecord(2048, 256,  1, 4, <<8, 8, 8, 4, 0, 0, 0, 0, 0, 0, 0, 0>>),
    SpecRecord( 512,  64,  1, 3, <<8, 8, 8, 0, 0, 0, 0, 0, 0, 0, 0, 0>>),
    SpecRecord( 256,  64,  1, 4, <<4, 4, 4, 4, 0, 0, 0, 0, 0, 0, 0, 0>>),
    SpecRecord(  64,  64,  4, 3, <<4, 4, 4, 0, 0, 0, 0, 0, 0, 0, 0, 0>>),
    SpecRecord(  32,  64, 16, 2, <<8, 4, 0, 0, 0, 0, 0, 0, 0, 0, 0, 0>>),
    SpecRecord(  16,  64, 16, 2, <<4, 4, 0, 0, 0, 0, 0, 0, 0, 0, 0, 0>>),
    SpecRecord(   4,  64, 32, 2, <<2, 2, 0, 0, 0, 0, 0, 0, 0, 0, 0, 0>>),
    SpecRecord(   2,  64, 64, 1, <<2, 0, 0, 0, 0, 0, 0, 0, 0, 0, 0, 0>>) }

\* case P_SINGLE
SingleTable ==
  { SpecRecord(4096, 256,  1, 4, <<8, 8, 8, 8, 0, 0, 0, 0, 0, 0, 0, 0>>),
    SpecRecord(1024, 128,  1, 4, <<8, 8, 4, 4, 0, 0, 0, 0, 0, 0, 0, 0>>),
    SpecRecord( 128,  64,  4, 3, <<8, 4, 4, 0, 0, 0, 0, 0, 0, 0, 0, 0>>),
    SpecRecord(   8,  64, 32, 2, <<4, 2, 0, 0, 0, 0, 0, 0, 0, 0, 0, 0>>) }

\* case P_DOUBLE
DoubleTable ==
  { SpecRecord(1024, 128,  1, 4, <<8, 8, 4, 4, 0, 0, 0, 0, 0, 0, 0, 0>>),
    SpecRecord( 128,  64,  4, 3, <<8, 8, 2, 0, 0, 0, 0, 0, 0, 0, 0, 0>>),
    SpecRecord(   8,  64, 16, 3, <<2, 2, 2, 0, 0, 0, 0, 0, 0, 0, 0, 0>>) }

\* the two precision cases exchanged
specTable_Swapped(p) ==
  IF p = "P_SINGLE" THEN RADIX_TABLE_COMMON \cup DoubleTable
                    ELSE RADIX_TABLE_COMMON \cup SingleTable

\* switch(PR): the table of KernelCoreSpecs<PR>
specTable(p) ==
  IF p = "P_SINGLE" THEN RADIX_TABLE_COMMON \cup SingleTable
                    ELSE RADIX_TABLE_COMMON \cup DoubleTable

\* specTable.find(length): the records found (none or one)
Find(p, len) == { rec \in specTable(p) : rec.length = len }

\* pRadices = NULL is modelled as found = FALSE
GetRadices(p, len) ==
  IF Find(p, len) = {}
  THEN [found |-> FALSE, numPasses |-> 0, pRadices |-> << >>]
  ELSE LET rec == CHOOSE x \in Find(p, len) : TRUE
       IN  [found |-> TRUE, numPasses |-> rec.numPasses, pRadices |-> rec.radices]

GetWGSAndNT(p, len) ==
  IF Find(p, len) = {}
  THEN [workGroupSize |-> 0, numTransforms |-> 0]
  ELSE LET rec == CHOOSE x \in Find(p, len) : TRUE
       IN  [workGroupSize |-> rec.workGroupSize, numTransforms |-> rec.numTransforms]

(***************************************************************************)
(* DetermineSizes                                                          *)
(***************************************************************************)
baseRadix == <<13, 11, 7, 5, 3, 2>>

\* while(!(l % rad)) { l /= rad; e *= rad; }
RECURSIVE DivideOut(_, _, _)
DivideOut(l, rad, e) ==
  IF l % rad = 0 THEN DivideOut(l \div rad, rad, e * rad)
                 ELSE [l |-> l, e |-> e]

\* the loop over baseRadix: the residual l and primeFactorsExpanded
RECURSIVE FactorLoop(_, _, _)
FactorLoop(r, l, pfe) ==
  IF r > Len(baseRadix) THEN [l |-> l, primeFactorsExpanded |-> pfe]
  ELSE LET rad == baseRadix[r]
           d   == DivideOut(l, rad, 1)
       IN  FactorLoop(r + 1, d.l, [pfe EXCEPT ![rad] = d.e])

PrimeFactors(len) == FactorLoop(1, len, [p \in {2, 3, 5, 7, 11, 13} |-> 1])

\* the (leastNumPerWI, maxWorkGroupSize) policy of the mixed-prime branch
MixedPolicy(len, e) ==
  IF      e[2] * e[3] = len
  THEN IF len % 12 = 0 THEN <<12, 128>> ELSE <<6, 256>>
  ELSE IF e[2] * e[5] = len
  THEN IF len % 20 = 0 THEN <<20, 64>> ELSE <<10, 128>>
  ELSE IF e[2] * e[7] = len         THEN <<14, 64>>
  ELSE IF e[3] * e[5] = len         THEN <<15, 128>>
  ELSE IF e[3] * e[7] = len         THEN <<21, 128>>
  ELSE IF e[5] * e[7] = len         THEN <<35, 64>>
  ELSE IF e[2] * e[3] * e[5] = len  THEN <<30, 64>>
  ELSE IF e[2] * e[3] * e[7] = len  THEN <<42, 60>>
  ELSE IF e[2] * e[5] * e[7] = len  THEN <<70, 36>>
  ELSE IF e[3] * e[5] * e[7] = len  THEN <<105, 24>>
  ELSE IF e[2] * e[11] = len        THEN <<22, 128>>
  ELSE IF e[2] * e[13] = len        THEN <<26, 128>>
  ELSE <<210, 12>>

\* for (lnpi = leastNumPerWI; lnpi <= length; lnpi += leastNumPerWI)
RECURSIVE SearchLnpi(_, _, _, _)
SearchLnpi(lnpi, step, len, maxWGS) ==
  IF lnpi > len THEN step
  ELSE IF len % lnpi # 0 THEN SearchLnpi(lnpi + step, step, len, maxWGS)
  ELSE IF len \div lnpi <= maxWGS THEN lnpi
  ELSE SearchLnpi(lnpi + step, step, len, maxWGS)

Sizes(e, w, n) == [err |-> e, workGroupSize |-> w, numTrans |-> n]

ResidualOk_NoCheck(l) == TRUE

\* assert(l == 1): the number is composed of only supported primes
ResidualOk(l) == l = 1

\* numTrans = length >= p * workGroupSize ? 1 : (p * workGroupSize) / length
PurePowerNumTrans(len, p, w) ==
  IF len >= p * w THEN 1 ELSE (p * w) \div len

\* the final assert(workGroupSize <= MAX_WGS)
FinalAssert(maxWGS, w, n) ==
  IF w <= maxWGS THEN Sizes("none", w, n)
                 ELSE Sizes("assert_workGroupSize_le_MAX_WGS", w, n)

MixedSizes(maxWGS, len, p, e) ==
  LET pol      == MixedPolicy(len, e)
      least0   == pol[1]
      mwgs0    == IF p = "P_DOUBLE" THEN pol[2] \div 2 ELSE pol[2]
      mwgs     == IF mwgs0 > maxWGS THEN maxWGS ELSE mwgs0
  IN  IF ~(least0 > 0 /\ len % least0 = 0)
      THEN Sizes("assert_length_mod_leastNumPerWI", 0, 0)
      ELSE LET least == SearchLnpi(least0, least0, len, maxWGS)
               n0    == mwgs \div (len \div least)
               n     == IF n0 < 1 THEN 1 ELSE n0
           IN  FinalAssert(maxWGS, n * (len \div least), n)

DetermineSizes(maxWGS, len, p) ==
  IF len = 1 THEN Sizes("none", 64, 64)
  ELSE
  LET f == PrimeFactors(len)
      e == f.primeFactorsExpanded
  IN  IF ~ResidualOk(f.l) THEN Sizes("assert_unsupported_length", 0, 0)
      ELSE IF e[2] = len
      THEN IF      len >= 1024 THEN FinalAssert(maxWGS, IF maxWGS >= 256 THEN 256 ELSE maxWGS, 1)
           ELSE IF len = 512   THEN FinalAssert(maxWGS, 64, 1)
           ELSE IF len >= 16   THEN FinalAssert(maxWGS, 64, 256 \div len)
           ELSE                     FinalAssert(maxWGS, 64, 128 \div len)
      ELSE IF e[3] = len
      THEN LET w == IF maxWGS >= 256 THEN 243 ELSE 27
           IN  FinalAssert(maxWGS, w, PurePowerNumTrans(len, 3, w))
      ELSE IF e[5] = len
      THEN LET w == IF maxWGS >= 128 THEN 125 ELSE 25
           IN  FinalAssert(maxWGS, w, PurePowerNumTrans(len, 5, w))
      ELSE IF e[7] = len
      THEN FinalAssert(maxWGS, 49, PurePowerNumTrans(len, 7, 49))
      ELSE IF e[11] = len
      THEN FinalAssert(maxWGS, 121, PurePowerNumTrans(len, 11, 121))
      ELSE IF e[13] = len
      THEN FinalAssert(maxWGS, 169, PurePowerNumTrans(len, 13, 169))
      ELSE MixedSizes(maxWGS, len, p, e)

(***************************************************************************)
(* FFTPlan::GetKernelGenKeyPvt<Stockham>: geometry selection               *)
(***************************************************************************)
\* the geometry (wgs, nt) and whether it came from the lookup table
SelectSizes(maxWGS, len, p) ==
  LET t == GetWGSAndNT(p, len)
  IN  IF t.workGroupSize # 0 /\ t.numTransforms # 0 /\ maxWGS >= 256
      THEN [table |-> TRUE] @@ Sizes("none", t.workGroupSize, t.numTransforms)
      ELSE [table |-> FALSE] @@ DetermineSizes(maxWGS, len, p)

GetKernelGenKeyPvt ==
  /\ pc = "start"
  /\ LET s == SelectSizes(MAX_WGS, length, pr)
     IN  /\ fromTable' = s.table
         /\ IF s.err # "none"
            THEN /\ pc' = "fatal" /\ err' = s.err
                 /\ UNCHANGED << wgs, nt, fft_R, fft_SIMD >>
            ELSE /\ wgs' = s.workGroupSize
                 /\ nt' = s.numTrans
                 /\ IF ~(s.numTrans * length >= s.workGroupSize)
                    THEN /\ pc' = "fatal" /\ err' = "assert_nt_length_ge_wgs"
                         /\ UNCHANGED << fft_R, fft_SIMD >>
                    ELSE IF (s.numTrans * length) % s.workGroupSize # 0
                    THEN /\ pc' = "fatal" /\ err' = "assert_nt_length_mod_wgs"
                         /\ UNCHANGED << fft_R, fft_SIMD >>
                    ELSE /\ fft_R' = (s.numTrans * length) \div s.workGroupSize
                         /\ fft_SIMD' = s.workGroupSize
                         /\ pc' = "keyed"
                         /\ UNCHANGED err
  /\ UNCHANGED << length, pr, MAX_WGS, numTrans, cnPerWI, LS, R, radices, passes,
                  numPasses, count, realHalf, globalWS, localWS >>

(***************************************************************************)
(* FFTPlan::GetWorkSizesPvt<Stockham>, non-blocked plans                   *)
(***************************************************************************)
DivRoundingUp(a, b) == (a + (b - 1)) \div b

Max(a, b) == IF a >= b THEN a ELSE b

\* the launch geometry without the halving for real transforms
GlobalWorkSize_NoHalving(len, T, r, simd, half) ==
  LET c0 == len * T
      c1 == DivRoundingUp(c0, r)
      c2 == DivRoundingUp(c1, simd)
  IN  Max(c2, 1) * simd

\* T logical 1-D transforms of length len: count = len * T complex numbers
GlobalWorkSize(len, T, r, simd, half) ==
  LET c0 == len * T
      c1 == DivRoundingUp(c0, r)
      c2 == DivRoundingUp(c1, simd)
      c3 == IF half THEN DivRoundingUp(c2, 2) ELSE c2
  IN  Max(c3, 1) * simd

GetWorkSizesPvt ==
  /\ pc = "keyed"
  /\ \E T \in 1..MaxT, half \in BOOLEAN :
       /\ count' = T
       /\ realHalf' = half
       /\ globalWS' = GlobalWorkSize(length, T, fft_R, fft_SIMD, half)
       /\ localWS' = fft_SIMD
  /\ pc' = "sized"
  /\ UNCHANGED << err, length, pr, MAX_WGS, fromTable, wgs, nt, fft_R, fft_SIMD,
                  numTrans, cnPerWI, LS, R, radices, passes, numPasses >>

(***************************************************************************)
(* Kernel::Kernel: breakdown into passes                                   *)
(***************************************************************************)
cRad_NoOne == <<13, 11, 10, 8, 7, 6, 5, 4, 3, 2>>

cRad_With12 == <<13, 12, 11, 10, 8, 7, 6, 5, 4, 3, 2, 1>>

\* the candidates in ascending order
cRad_Ascending == <<2, 3, 4, 5, 6, 7, 8, 10, 11, 13, 1>>

cRad == <<13, 11, 10, 8, 7, 6, 5, 4, 3, 2, 1>>

\* the for loop over cRad: the radix at which the loop stops
RECURSIVE PickRadix(_, _, _)
PickRadix(r, cn, rem) ==
  LET rad == cRad[r]
  IN  IF r = Len(cRad) THEN rad
      ELSE IF rad > cn \/ cn % rad # 0 THEN PickRadix(r + 1, cn, rem)
      ELSE IF rem % rad = 0 THEN rad
      ELSE PickRadix(r + 1, cn, rem)

\* Pass::Pass: the assertions of the constructor, "none" when all hold
PassAssert(len, radix, cn, algLS) ==
  IF ~(radix <= len) THEN "assert_radix_le_length"
  ELSE IF len % radix # 0 THEN "assert_length_mod_radix"
  ELSE IF ((cn \div radix) * (len \div cn)) % algLS # 0 THEN "assert_butterflies_mod_LS"
  ELSE IF ~(cn <= len) THEN "assert_cnPerWI_le_length"
  ELSE "none"

\* a pass that counts one butterfly per element of the work-item
Pass_ButterflyPerElement(position, len, radix, cn, algL, algLS, algR) ==
  [position |-> position, length |-> len, radix |-> radix, cnPerWI |-> cn,
   algL |-> algL, algLS |-> algLS, algR |-> algR,
   numButterfly |-> cn, workGroupSize |-> len \div cn]

Pass(position, len, radix, cn, algL, algLS, algR) ==
  [position |-> position, length |-> len, radix |-> radix, cnPerWI |-> cn,
   algL |-> algL, algLS |-> algLS, algR |-> algR,
   numButterfly |-> cn \div radix, workGroupSize |-> len \div cn]

\* the constructor up to "Breakdown into passes"
KernelInit ==
  /\ pc = "keyed"
  /\ LET n  == (fft_SIMD * fft_R) \div length
         cn == (n * length) \div fft_SIMD
     IN  /\ numTrans' = n
         /\ IF (length * n) % fft_SIMD # 0
            THEN /\ pc' = "fatal" /\ err' = "assert_length_numTrans_mod_wgs"
                 /\ UNCHANGED << cnPerWI, LS, R >>
            ELSE /\ cnPerWI' = cn
                 /\ IF cn * fft_SIMD # n * length
                    THEN /\ pc' = "fatal" /\ err' = "assert_cnPerWI_wgs"
                         /\ UNCHANGED << LS, R >>
                    ELSE IF ~(cn <= length)
                    THEN /\ pc' = "fatal" /\ err' = "assert_cnPerWI_le_length"
                         /\ UNCHANGED << LS, R >>
                    ELSE /\ LS' = 1
                         /\ R' = length
                         /\ pc' = "passes"
                         /\ UNCHANGED err
  /\ UNCHANGED << length, pr, MAX_WGS, fromTable, wgs, nt, fft_R, fft_SIMD,
                  radices, passes, numPasses, count, realHalf, globalWS, localWS >>

UseTable == MAX_WGS >= 256 /\ GetRadices(pr, length).found

\* one iteration of the loop over the radices of the lookup table
KernelLookupPass ==
  /\ pc = "passes"
  /\ UseTable
  /\ Len(radices) < GetRadices(pr, length).numPasses
  /\ LET i   == Len(radices)
         rad == GetRadices(pr, length).pRadices[i + 1]
         a   == PassAssert(length, rad, cnPerWI, LS)
     IN  IF a # "none"
         THEN /\ pc' = "fatal" /\ err' = a
              /\ UNCHANGED << LS, R, radices, passes >>
         ELSE /\ R' = R \div rad
              /\ radices' = Append(radices, rad)
              /\ passes' = Append(passes, Pass(i, length, rad, cnPerWI, LS * rad, LS, R \div rad))
              /\ LS' = LS * rad
              /\ UNCHANGED << pc, err >>
  /\ UNCHANGED << length, pr, MAX_WGS, fromTable, wgs, nt, fft_R, fft_SIMD,
                  numTrans, cnPerWI, numPasses, count, realHalf, globalWS, localWS >>

\* the end of the lookup loop: assert(R == 1); numPasses = nPasses
KernelLookupDone ==
  /\ pc = "passes"
  /\ UseTable
  /\ Len(radices) = GetRadices(pr, length).numPasses
  /\ IF R # 1
     THEN /\ pc' = "fatal" /\ err' = "assert_R_eq_1"
          /\ UNCHANGED numPasses
     ELSE /\ numPasses' = GetRadices(pr, length).numPasses
          /\ pc' = "kernel"
          /\ UNCHANGED err
  /\ UNCHANGED << length, pr, MAX_WGS, fromTable, wgs, nt, fft_R, fft_SIMD,
                  numTrans, cnPerWI, LS, R, radices, passes, count, realHalf,
                  globalWS, localWS >>

\* one iteration of the greedy while(true) loop.  A radix of 1 with R > 1
\* leaves R unchanged for ever: the loop cannot reach its break (pc = "diverged").
KernelGreedyPass ==
  /\ pc = "passes"
  /\ ~UseTable
  /\ LET rad == PickRadix(1, cnPerWI, R)
         a   == PassAssert(length, rad, cnPerWI, LS)
     IN  IF cnPerWI % rad # 0
         THEN /\ pc' = "fatal" /\ err' = "assert_cnPerWI_mod_rad"
              /\ UNCHANGED << LS, R, radices, passes, numPasses >>
         ELSE IF a # "none"
         THEN /\ pc' = "fatal" /\ err' = a
              /\ UNCHANGED << LS, R, radices, passes, numPasses >>
         ELSE IF ~(R \div rad >= 1)
         THEN /\ pc' = "fatal" /\ err' = "assert_R_ge_1"
              /\ UNCHANGED << LS, R, radices, passes, numPasses >>
         ELSE /\ R' = R \div rad
              /\ radices' = Append(radices, rad)
              /\ passes' = Append(passes, Pass(Len(radices), length, rad, cnPerWI, LS * rad, LS, R \div rad))
              /\ LS' = LS * rad
              /\ UNCHANGED err
              /\ IF R \div rad = 1
                 THEN /\ numPasses' = Len(radices) + 1
                      /\ pc' = "kernel"
                 ELSE /\ UNCHANGED numPasses
                      /\ pc' = IF rad = 1 THEN "diverged" ELSE "passes"
  /\ UNCHANGED << length, pr, MAX_WGS, fromTable, wgs, nt, fft_R, fft_SIMD,
                  numTrans, cnPerWI, count, realHalf, globalWS, localWS >>

(***************************************************************************)
(* TwiddleTable::GenerateTwiddleTable                                      *)
(*                                                                         *)
(* An entry stands for (cos, sin) of the angle TWO_PI * k / L * j with     *)
(* TWO_PI = -2*pi: it records the stage, k, j and L, so that the angle is  *)
(* the exact rational k*j/L of -2*pi.                                      *)
(***************************************************************************)
Uninit == [stage |-> 0, k |-> 0, j |-> 0, L |-> 0]

RECURSIVE Product(_)
Product(s) == IF s = << >> THEN 1 ELSE Head(s) * Product(Tail(s))

\* TwiddleTable(length): wc = new T[N]; the locals before the first loop
TwStart(n) ==
  [pc |-> "check", i |-> 1, L |-> 1, radix |-> 0, k |-> 0, j |-> 0, nt |-> 0,
   wc |-> [x \in 0..(n - 1) |-> Uninit]]

\* sz = product of the radices; assert(sz == N)
TwCheck(n, rads, s) ==
  IF Product(rads) = n THEN [s EXCEPT !.pc = "outer"]
                       ELSE [s EXCEPT !.pc = "fatal"]

\* the loop over the radices: radix = *i; L *= radix; k = 0
TwOuter(n, rads, s) ==
  IF s.i > Len(rads) THEN [s EXCEPT !.pc = "done"]
  ELSE [s EXCEPT !.pc = "kloop", !.radix = rads[s.i], !.L = s.L * rads[s.i],
                 !.k = 0, !.i = s.i + 1]

\* the loop over k started at 1 instead of 0
TwK_FromOne(n, rads, s) ==
  LET t == IF s.k = 0 THEN [s EXCEPT !.k = 1] ELSE s
  IN  IF t.k < t.L \div t.radix + 1 THEN [t EXCEPT !.pc = "jloop", !.j = 1]
                                    ELSE [t EXCEPT !.pc = "outer"]

\* for (k = 0; k < L / radix; k++) { theta = TWO_PI * k / L; j = 1; ...
TwK(n, rads, s) ==
  IF s.k < s.L \div s.radix THEN [s EXCEPT !.pc = "jloop", !.j = 1]
                            ELSE [s EXCEPT !.pc = "outer"]

\* the loop over j with the bound j <= radix
TwJ_Inclusive(n, rads, s) ==
  IF s.j <= s.radix
  THEN [s EXCEPT !.wc = [s.wc EXCEPT ![s.nt] =
                           [stage |-> s.i - 1, k |-> s.k, j |-> s.j, L |-> s.L]],
                 !.nt = s.nt + 1, !.j = s.j + 1]
  ELSE [s EXCEPT !.pc = "kloop", !.k = s.k + 1]

\* for (j = 1; j < radix; j++) { wc[nt++] = (cos(j * theta), sin(j * theta)) }
TwJ(n, rads, s) ==
  IF s.j < s.radix
  THEN [s EXCEPT !.wc = [s.wc EXCEPT ![s.nt] =
                           [stage |-> s.i - 1, k |-> s.k, j |-> s.j, L |-> s.L]],
                 !.nt = s.nt + 1, !.j = s.j + 1]
  ELSE [s EXCEPT !.pc = "kloop", !.k = s.k + 1]

TwStep(n, rads, s) ==
  CASE s.pc = "check" -> TwCheck(n, rads, s)
    [] s.pc = "outer" -> TwOuter(n, rads, s)
    [] s.pc = "kloop" -> TwK(n, rads, s)
    [] s.pc = "jloop" -> TwJ(n, rads, s)
    [] OTHER -> s

RECURSIVE TwRun(_, _, _)
TwRun(n, rads, s) ==
  IF s.pc \in {"done", "fatal"} THEN s ELSE TwRun(n, rads, TwStep(n, rads, s))

\* the whole call: the final locals and the table wc
GenerateTwiddleTable(n, rads) == TwRun(n, rads, TwStart(n))

\* the indices of wc that were written
Written(s) == { x \in DOMAIN s.wc : s.wc[x] # Uninit }

\* bounds of the radix sequences the table builder is run on
MaxTwPasses == 3
MaxTwLen == 30

RadixSet == {1, 2, 3, 4, 5, 6, 7, 8, 10, 11, 13}

RadixSeqs ==
  { s \in UNION { [1..m -> RadixSet] : m \in 1..MaxTwPasses } :
      Product(s) <= MaxTwLen }

\* no work-group of a launch has started
GridIdle == grid = [real |-> FALSE, started |-> { }, assigned |-> { }]

\* a std::string is a sequence of tokens; + is \o, size() is Len
EmptyString == << >>

\* fftRepoValue(): the value mapFFTs[key] inserts for a new key
fftRepoValue ==
  [ProgramString |-> EmptyString, EntryPoint_fwd |-> EmptyString,
   EntryPoint_back |-> EmptyString]

\* the repository after construction: no plan, no program, planCount = 1
RepoStart ==
  [repoPlans |-> << >>, planCount |-> 1, mapFFTs |-> << >>,
   live |-> { }, freed |-> { }, crashed |-> FALSE]

NoCall == [op |-> "none"]

RepoIdle ==
  /\ repo = RepoStart
  /\ ret = NoCall
  /\ hist = [ops |-> 0, held |-> { }, released |-> FALSE, code |-> << >>, entry |-> << >>]

\* a status code: the library prefix and the name after it
Code(lib, name) == [lib |-> lib, name |-> name]

NoCode == Code("-", "-")

\* no wrapper was called
HipIdle == hip = [fn |-> "none", hc |-> NoCode, type |-> "-", thrown |-> "-", result |-> NoCode]

\* GenerateKernelPvt was not called with exist = true
ExistIdle == existRadices = << >>

\* nothing emitted yet
SweepIdle == sweep = [path |-> "none"]

\* no kernel text has been generated
KernIdle == kern = [generated |-> FALSE]

\* no thread has entered FFTRepo
ConcIdle == conc = [started |-> FALSE]

LibIdle ==
  GridIdle /\ RepoIdle /\ HipIdle /\ ExistIdle /\ SweepIdle /\ KernIdle /\ ConcIdle

\* no kernel is running
RunIdle ==
  /\ batchSize = 0
  /\ wi = << >>
  /\ lds = << >>

\* the table builder is not running
TwIdle ==
  /\ N = 0
  /\ twRadices = << >>
  /\ tw = [pc |-> "idle"]

InitTwiddle ==
  /\ pc = "twiddle"
  /\ err = "none"
  /\ length = 0 /\ pr = "P_SINGLE" /\ MAX_WGS = 0
  /\ fromTable = FALSE
  /\ wgs = 0 /\ nt = 0 /\ fft_R = 0 /\ fft_SIMD = 0
  /\ numTrans = 0 /\ cnPerWI = 0 /\ LS = 0 /\ R = 0
  /\ radices = << >> /\ passes = << >> /\ numPasses = -1
  /\ count = 0 /\ realHalf = FALSE /\ globalWS = 0 /\ localWS = 0
  /\ twRadices \in RadixSeqs
  /\ N \in 2..MaxTwLen
  /\ tw = TwStart(N)
  /\ RunIdle
  /\ LibIdle

TwiddleCheck ==
  /\ tw.pc = "check"
  /\ tw' = TwCheck(N, twRadices, tw)
  /\ UNCHANGED << N, twRadices >>

TwiddleOuter ==
  /\ tw.pc = "outer"
  /\ tw' = TwOuter(N, twRadices, tw)
  /\ UNCHANGED << N, twRadices >>

TwiddleK ==
  /\ tw.pc = "kloop"
  /\ tw' = TwK(N, twRadices, tw)
  /\ UNCHANGED << N, twRadices >>

TwiddleJ ==
  /\ tw.pc = "jloop"
  /\ tw' = TwJ(N, twRadices, tw)
  /\ UNCHANGED << N, twRadices >>

NextTwiddle ==
  \/ (TwiddleCheck /\ UNCHANGED << planVars, runVars, libVars >>)
  \/ (TwiddleOuter /\ UNCHANGED << planVars, runVars, libVars >>)
  \/ (TwiddleK /\ UNCHANGED << planVars, runVars, libVars >>)
  \/ (TwiddleJ /\ UNCHANGED << planVars, runVars, libVars >>)

SpecTwiddle == InitTwiddle /\ [][NextTwiddle]_vars

(***************************************************************************)
(* FFTPlan::GenerateKernelPvt<Stockham>, exist = true: the kernel source   *)
(* of an earlier plan with the same parameters is reused and only the      *)
(* twiddle table is rebuilt                                                *)
(***************************************************************************)
\* the while(true) loop of the exist branch: the radices pushed so far are
\* rads, the remaining factor is rem
RECURSIVE ExistGreedy(_, _, _)
ExistGreedy(cn, rem, rads) ==
  LET rad == PickRadix(1, cn, rem)
  IN  IF cn % rad # 0 THEN [status |-> "assert_cnPerWI_mod_rad", radices |-> rads]
      ELSE IF ~(rem \div rad >= 1)
      THEN [status |-> "assert_R_ge_1", radices |-> Append(rads, rad)]
      ELSE IF rem \div rad = 1 THEN [status |-> "done", radices |-> Append(rads, rad)]
      ELSE IF rad = 1 THEN [status |-> "diverged", radices |-> Append(rads, rad)]
      ELSE ExistGreedy(cn, rem \div rad, Append(rads, rad))

\* KernelCoreSpecs<P_SINGLE> kcs, whatever the precision of the plan
ExistRadices(len, maxWGS, simd, r) ==
  LET t == GetRadices("P_SINGLE", len)
  IN  IF maxWGS >= 256 /\ t.found
      THEN [status |-> IF Product(SubSeq(t.pRadices, 1, t.numPasses)) = len
                       THEN "done" ELSE "assert_R_eq_1",
            radices |-> SubSeq(t.pRadices, 1, t.numPasses)]
      ELSE LET n  == (simd * r) \div len
               cn == (n * len) \div simd
           IN  ExistGreedy(cn, len, << >>)

\* a later plan with the parameters of a plan whose source was generated
GenerateKernelPvtExist ==
  /\ pc = "kernel"
  /\ LET e == ExistRadices(length, MAX_WGS, fft_SIMD, fft_R)
     IN  /\ existRadices' = e.radices
         /\ IF e.status = "done"
            THEN pc' = "reused" /\ UNCHANGED err
            ELSE IF e.status = "diverged"
            THEN pc' = "diverged" /\ UNCHANGED err
            ELSE pc' = "fatal" /\ err' = e.status
  /\ UNCHANGED << length, pr, MAX_WGS, fromTable, wgs, nt, fft_R, fft_SIMD,
                  numTrans, cnPerWI, LS, R, radices, passes, numPasses,
                  count, realHalf, globalWS, localWS >>
  /\ UNCHANGED << twVars, runVars, gridVars, repoVars, hipVars, sweepVars, kernVars, concVars >>

(***************************************************************************)
(* The planner                                                             *)
(***************************************************************************)
Init ==
  /\ pc = "start"
  /\ err = "none"
  /\ length \in Lengths
  /\ pr \in Precisions
  /\ MAX_WGS \in MinWGS..MaxWGSLimit
  /\ fromTable = FALSE
  /\ wgs = 0 /\ nt = 0 /\ fft_R = 0 /\ fft_SIMD = 0
  /\ numTrans = 0 /\ cnPerWI = 0 /\ LS = 0 /\ R = 0
  /\ radices = << >> /\ passes = << >> /\ numPasses = -1
  /\ count = 0 /\ realHalf = FALSE /\ globalWS = 0 /\ localWS = 0
  /\ TwIdle
  /\ RunIdle
  /\ LibIdle

Next ==
  \/ (GetKernelGenKeyPvt /\ UNCHANGED << twVars, runVars, libVars >>)
  \/ (GetWorkSizesPvt /\ UNCHANGED << twVars, runVars, libVars >>)
  \/ (KernelInit /\ UNCHANGED << twVars, runVars, libVars >>)
  \/ (KernelLookupPass /\ UNCHANGED << twVars, runVars, libVars >>)
  \/ (KernelLookupDone /\ UNCHANGED << twVars, runVars, libVars >>)
  \/ (KernelGreedyPass /\ UNCHANGED << twVars, runVars, libVars >>)
  \/ GenerateKernelPvtExist

Spec == Init /\ [][Next]_vars

(***************************************************************************)
(* The generated kernel, complex transform, half-LDS mode                  *)
(*                                                                         *)
(* The kernel text emitted by Kernel::GenerateKernel and Pass::GeneratePass*)
(* is a straight-line program; every work-item of a work-group runs it.    *)
(* A value is tagged with the number of passes applied to it (lvl) and its *)
(* component (c): lvl 0 is the input read from global memory.              *)
(***************************************************************************)
\* at most MaxWorkItems work-items of the group are run (whole transforms)
MaxWorkItems == 4

Ins(op, p, c, g) == [op |-> op, pass |-> p, comp |-> c, guarded |-> g]

\* write back from registers when there is a next pass: write real, barrier,
\* next pass reads real, barrier, write imaginary, barrier, next pass reads
\* imaginary, barrier
HandOff_NoBarrierAfterRead(p) ==
  << Ins("write", p, "x", TRUE), Ins("barrier", p, "-", FALSE),
     Ins("read", p + 1, "x", TRUE),
     Ins("write", p, "y", TRUE), Ins("barrier", p, "-", FALSE),
     Ins("read", p + 1, "y", TRUE), Ins("barrier", p, "-", FALSE) >>

HandOff(p) ==
  << Ins("write", p, "x", TRUE), Ins("barrier", p, "-", FALSE),
     Ins("read", p + 1, "x", TRUE), Ins("barrier", p, "-", FALSE),
     Ins("write", p, "y", TRUE), Ins("barrier", p, "-", FALSE),
     Ins("read", p + 1, "y", TRUE), Ins("barrier", p, "-", FALSE) >>

\* Pass::GeneratePass for the pass at index p (1-based) of ps
PassBody(ps, p) ==
  (IF ps[p].position = 0 THEN << Ins("gread", p, "both", TRUE) >> ELSE << >>)
  \o (IF ps[p].radix > 1 THEN << Ins("bfly", p, "both", FALSE) >> ELSE << >>)
  \o (IF p = Len(ps) THEN << Ins("gwrite", p, "both", TRUE) >> ELSE HandOff(p))

\* Kernel::GenerateKernel: the calls of the passes, in order
RECURSIVE PassCalls(_, _)
PassCalls(ps, p) ==
  IF p > Len(ps) THEN << >> ELSE PassBody(ps, p) \o PassCalls(ps, p + 1)

Program == PassCalls(passes, 1)

Min(a, b) == IF a <= b THEN a ELSE b

workGroupSizePerTrans == fft_SIMD \div numTrans

\* the transforms and work-items of the group that are run
GroupTrans == Min(numTrans, Max(1, MaxWorkItems \div workGroupSizePerTrans))

WorkItems == 0..(GroupTrans * workGroupSizePerTrans - 1)

\* the 'me' argument of the pass calls
PassMe(g) == IF numTrans > 1 THEN g % workGroupSizePerTrans ELSE g

\* tile_static lds[ldsSize]: half-LDS mode, lds not interleaved
LdsSize == length * numTrans

\* the offset advancing by the elements of a work-item instead of a transform
LdsOff_PerWorkItemElements(g) ==
  IF numTrans > 1 THEN (g \div workGroupSizePerTrans) * cnPerWI ELSE 0

\* the lds offset argument of the pass calls
LdsOff(g) == IF numTrans > 1 THEN (g \div workGroupSizePerTrans) * length ELSE 0

\* unsigned int rw, for the work-group batch = 0
Rw(g) ==
  IF numTrans > 1
  THEN (IF g < (batchSize - 0 * numTrans) * workGroupSizePerTrans THEN 1 ELSE 0)
  ELSE 1

\* the write offset without the /LS, %LS correction
WriteOffset_NoCorrection(ps, me, i, r) ==
  ps.numButterfly * me + i + r * ps.algLS

\* SweepRegs, SR_WRITE with a next pass: offset of butterfly i, digit r
WriteOffset(ps, me, i, r) ==
  (IF ps.numButterfly * ps.workGroupSize > ps.algLS
   THEN ((ps.numButterfly * me + i) \div ps.algLS) * ps.algL
          + ((ps.numButterfly * me + i) % ps.algLS)
   ELSE ps.numButterfly * me + i)
  + r * ps.algLS

\* the read offset with the digit advancing by the stride of the pass
ReadOffset_DigitStrideLS(ps, me, i, r) ==
  0 + me * ps.numButterfly + i + r * ps.algLS

\* SweepRegs, SR_READ with linear registers: offset of butterfly i, digit r
ReadOffset(ps, me, i, r) ==
  0 + me * ps.numButterfly + i + ((r * ps.length) \div ps.radix)

\* SweepRegs, SR_WRITE of the last pass with linear registers: offset of
\* butterfly i, digit r.  In the /LS, %LS form the factor algL is appended to
\* the pass text instead of the offset, which is left as
\* "((nB*me + i)/LS)* + (nB*me + i)%LS + r*LS".
LastWriteOffset(ps, me, i, r) ==
  (IF ps.numButterfly * ps.workGroupSize > ps.algLS
   THEN ((((ps.numButterfly * me + i) \div ps.algLS) * (ps.numButterfly * me + i))
           % ps.algLS)
   ELSE ps.numButterfly * me + i)
  + r * ps.algLS

\* the offset of the store of butterfly i, digit r of pass p of ps
PassWriteOffset(ps, p, me, i, r) ==
  IF p = Len(ps) THEN LastWriteOffset(ps[p], me, i, r)
                 ELSE WriteOffset(ps[p], me, i, r)

\* the accesses of a write sweep in emission order (i outer, r inner)
WriteAccesses(ps, me) ==
  [ m \in 1..(ps.numButterfly * ps.radix) |->
      LET i == (m - 1) \div ps.radix
          r == (m - 1) % ps.radix
      IN  [reg |-> i * ps.radix + r, off |-> WriteOffset(ps, me, i, r)] ]

\* the accesses of a read sweep in emission order (r outer, i inner)
ReadAccesses(ps, me) ==
  [ m \in 1..(ps.numButterfly * ps.radix) |->
      LET r == (m - 1) \div ps.numButterfly
          i == (m - 1) % ps.numButterfly
      IN  [reg |-> i * ps.radix + r, off |-> ReadOffset(ps, me, i, r)] ]

Accesses(ins, me) ==
  IF ins.op = "write" THEN WriteAccesses(passes[ins.pass], me)
                      ELSE ReadAccesses(passes[ins.pass], me)

Junk == [lvl |-> -1, c |-> "-"]

Val(l, c) == [lvl |-> l, c |-> c]

\* the kernel is launched on a plan; lds[length * numTrans] is declared
Launch ==
  /\ pc = "kernel"
  /\ pc' = "running"
  /\ \E T \in 1..GroupTrans : batchSize' = T
  /\ wi' = [g \in WorkItems |->
              [ip |-> 1, n |-> 0, regs |-> [q \in 0..(cnPerWI - 1) |-> [x |-> Junk, y |-> Junk]]]]
  /\ lds' = [a \in 0..(length * numTrans - 1) |-> Junk]
  /\ UNCHANGED << err, length, pr, MAX_WGS, fromTable, wgs, nt, fft_R, fft_SIMD,
                  numTrans, cnPerWI, LS, R, radices, passes, numPasses,
                  count, realHalf, globalWS, localWS >>

Advance(w) == [w EXCEPT !.ip = w.ip + 1, !.n = 0]

\* one step of work-item g: a register-only statement, a skipped guarded
\* block, or one load or store of a sweep
WorkItemStep(g) ==
  /\ pc = "running"
  /\ wi[g].ip <= Len(Program)
  /\ LET w   == wi[g]
         ins == Program[w.ip]
     IN  /\ ins.op # "barrier"
         /\ IF ins.guarded /\ Rw(g) = 0
            THEN /\ wi' = [wi EXCEPT ![g] = Advance(w)]
                 /\ UNCHANGED lds
            ELSE IF ins.op = "gread"
            THEN /\ wi' = [wi EXCEPT ![g] =
                      [Advance(w) EXCEPT !.regs = [q \in DOMAIN w.regs |-> [x |-> Val(0, "x"), y |-> Val(0, "y")]]]]
                 /\ UNCHANGED lds
            ELSE IF ins.op = "bfly"
            THEN /\ wi' = [wi EXCEPT ![g] =
                      [Advance(w) EXCEPT !.regs = [q \in DOMAIN w.regs |-> [x |-> Val(ins.pass, "x"), y |-> Val(ins.pass, "y")]]]]
                 /\ UNCHANGED lds
            ELSE IF ins.op = "gwrite"
            THEN /\ wi' = [wi EXCEPT ![g] = Advance(w)]
                 /\ UNCHANGED lds
            ELSE LET acc  == Accesses(ins, PassMe(g))
                     a    == acc[w.n + 1]
                     addr == LdsOff(g) + a.off
                     w1   == IF w.n + 1 = Len(acc) THEN Advance(w)
                                                   ELSE [w EXCEPT !.n = w.n + 1]
                 IN  IF ins.op = "write"
                     THEN /\ lds' = [lds EXCEPT ![addr] = w.regs[a.reg][ins.comp]]
                          /\ wi' = [wi EXCEPT ![g] = w1]
                     ELSE /\ wi' = [wi EXCEPT ![g] =
                                [w1 EXCEPT !.regs[a.reg][ins.comp] = lds[addr]]]
                          /\ UNCHANGED lds
  /\ UNCHANGED << planVars, batchSize >>

\* tidx.barrier.wait_with_tile_static_memory_fence(): released once every
\* work-item of the group has arrived
BarrierRelease ==
  /\ pc = "running"
  /\ \A g \in DOMAIN wi :
       /\ wi[g].ip <= Len(Program)
       /\ Program[wi[g].ip].op = "barrier"
  /\ wi' = [g \in DOMAIN wi |-> Advance(wi[g])]
  /\ UNCHANGED << planVars, batchSize, lds >>

\* lengths whose kernels are run
BarrierLengths == {4, 8, 9, 16}

InitBarrier ==
  /\ Init
  /\ length \in BarrierLengths
  /\ MAX_WGS \in {MinWGS, MaxWGSLimit}

NextBarrier ==
  \/ Next
  \/ (Launch /\ UNCHANGED << twVars, libVars >>)
  \/ (\E g \in DOMAIN wi : WorkItemStep(g) /\ UNCHANGED << twVars, libVars >>)
  \/ (BarrierRelease /\ UNCHANGED << twVars, libVars >>)

SpecBarrier == InitBarrier /\ [][NextBarrier]_vars

(***************************************************************************)
(* Pass::SweepRegs, SR_WRITE of the last pass of a complex transform       *)
(*                                                                         *)
(* A store is the pair of the complex element of the output buffer that is *)
(* written and the register it is written from; the statements are emitted *)
(* with 'me' symbolic, so the stores are kept per work-item of a transform.*)
(***************************************************************************)
\* the outOffset argument of the call of the ending pass
outOffset == 0

\* the strides params.fft_outStride[0] that are emitted
OutStrides == {1, 2}

Store(addr, reg) == [addr |-> addr, reg |-> reg]

\* the grouped stores with the radix digit advancing by LS instead of LS/2
GroupedStores_FullStride(ps, me) ==
  UNION { LET idx == (ps.numButterfly \div 2) * me + i + r * ps.algLS
          IN  { Store(2 * idx, (2 * i + 0) * ps.radix + r),
                Store(2 * idx + 1, (2 * i + 1) * ps.radix + r) } :
          r \in 0..(ps.radix - 1), i \in 0..((ps.numButterfly \div 2) - 1) }

\* the 4-wide stores through buff4g: element idx of buff4g covers the complex
\* elements 2*idx (.x, .y) and 2*idx + 1 (.z, .w) of the buffer
GroupedStores(ps, me) ==
  UNION { LET idx == (ps.numButterfly \div 2) * me + i + r * (ps.algLS \div 2)
          IN  { Store(2 * idx, (2 * i + 0) * ps.radix + r),
                Store(2 * idx + 1, (2 * i + 1) * ps.radix + r) } :
          r \in 0..(ps.radix - 1), i \in 0..((ps.numButterfly \div 2) - 1) }

\* the stores of the block that rearranges writes of adjacent locations
LinearStores(ps, me, stride) ==
  { Store(outOffset + LastWriteOffset(ps, me, i, r) * stride, i * ps.radix + r) :
      r \in 0..(ps.radix - 1), i \in 0..(ps.numButterfly - 1) }

\* the condition of the write back with float4 grouping (regC = 1,
\* numB = numButterfly, component = SR_COMP_BOTH, linearRegs, no next pass)
Grouped(ps, interleaved, stride, enableGrouping) ==
  /\ ps.numButterfly # 0
  /\ ps.numButterfly % 2 = 0
  /\ stride = 1
  /\ ps.algLS % 2 = 0
  /\ interleaved
  /\ enableGrouping

\* GeneratePass of the last pass reaches SweepRegs(SR_WRITE, outInterleaved,
\* outStride, SR_COMP_BOTH, ..., "outOffset", 1, numB1, 0)
SweepRegsWrite(interleaved, stride, enableGrouping) ==
  /\ pc = "kernel"
  /\ LET ps == passes[Len(passes)]
     IN  IF Grouped(ps, interleaved, stride, enableGrouping)
         THEN IF ps.numButterfly * ps.workGroupSize # ps.algLS
              THEN /\ pc' = "fatal"
                   /\ err' = "assert_grouped_butterflies_eq_LS"
                   /\ UNCHANGED sweep
              ELSE /\ pc' = "written"
                   /\ UNCHANGED err
                   /\ sweep' = [path |-> "grouped", interleaved |-> interleaved,
                                stride |-> stride,
                                stores |-> [me \in 0..(ps.workGroupSize - 1) |->
                                              GroupedStores(ps, me)]]
         ELSE /\ pc' = "written"
              /\ UNCHANGED err
              /\ sweep' = [path |-> "linear", interleaved |-> interleaved,
                           stride |-> stride,
                           stores |-> [me \in 0..(ps.workGroupSize - 1) |->
                                         LinearStores(ps, me, stride)]]
  /\ UNCHANGED << length, pr, MAX_WGS, fromTable, wgs, nt, fft_R, fft_SIMD,
                  numTrans, cnPerWI, LS, R, radices, passes, numPasses,
                  count, realHalf, globalWS, localWS >>
  /\ UNCHANGED << twVars, runVars, gridVars, repoVars, hipVars, existVars,
                  kernVars, concVars >>

\* SweepRegs, SR_TWMUL: the index into the twiddle table of butterfly i,
\* digit r >= 1
TwMulIndex(ps, me, i, r) ==
  (ps.algLS - 1) + (ps.radix - 1) * ((ps.numButterfly * me + i) % ps.algLS) + (r - 1)

\* the twiddle table handed to the kernel: built by GenerateKernel from the
\* radices of the Kernel, or by the exist branch of GenerateKernelPvt from
\* the radices it derived, when the source is reused
KernelTwiddles ==
  IF pc = "reused" THEN GenerateTwiddleTable(length, existRadices)
                   ELSE GenerateTwiddleTable(length, radices)

\* the directions a kernel is generated for: forward and backward, or the
\* one direction of a real transform
KernelDirections(r2c2r) == IF r2c2r THEN {0} ELSE {0, 1}

\* the tw3Step argument GenerateKernel hands to GeneratePass for pass p of n
Tw3StepOfPass(p, n, fft_3StepTwiddle, fft_twiddleFront) ==
  LET atBegin == IF p = 1 /\ fft_twiddleFront THEN fft_3StepTwiddle ELSE FALSE
  IN  IF p = n /\ ~fft_twiddleFront THEN fft_3StepTwiddle ELSE atBegin

\* Pass::GeneratePass: whether the signature declares the large twiddle
\* table, the sweeps and butterfly calls of the body in emission order, and
\* the assertion on the way
GeneratePass(ps, last, fft_3StepTwiddle, twiddleFront) ==
  LET tw3Done == fft_3StepTwiddle /\ twiddleFront
  IN  [ twLargeParam |-> fft_3StepTwiddle,
        body |-> << "SR_READ" >>
                 \o (IF tw3Done THEN << "SR_TWMUL_3STEP" >> ELSE << >>)
                 \o (IF ps.position > 0 /\ ps.radix > 1 THEN << "SR_TWMUL" >> ELSE << >>)
                 \o (IF ps.radix > 1 THEN << "Butterfly" >> ELSE << >>)
                 \o (IF fft_3StepTwiddle /\ ~tw3Done
                     THEN << "SR_TWMUL_3STEP" >> ELSE << >>)
                 \o << "SR_WRITE" >>,
        nextPassNull |-> (fft_3StepTwiddle /\ ~tw3Done) => last ]

\* every pass call is handed the large table when the transform has one
Tw3StepOfCall_EveryPass(p, n, fft_3StepTwiddle, fft_twiddleFront) ==
  fft_3StepTwiddle

\* the tw3Step flag of the call of pass p of n, numPasses > 1
Tw3StepOfCall(p, n, fft_3StepTwiddle, fft_twiddleFront) ==
  LET atBegin == IF p = 1 /\ fft_twiddleFront THEN fft_3StepTwiddle ELSE FALSE
  IN  IF p = n /\ ~fft_twiddleFront THEN fft_3StepTwiddle ELSE atBegin

\* the call of pass p: whether the large twiddle table is among its arguments
PassCall(p, n, fft_3StepTwiddle, fft_twiddleFront) ==
  [ twLargeArg |-> IF n = 1 THEN fft_3StepTwiddle
                   ELSE Tw3StepOfCall(p, n, fft_3StepTwiddle, fft_twiddleFront) ]

\* Kernel::GenerateKernel: the pass functions and the pass calls of each
\* direction
GenerateKernel(r2c2r, fft_3StepTwiddle, fft_twiddleFront) ==
  /\ pc = "kernel"
  /\ LET n   == Len(passes)
         gen == [d \in KernelDirections(r2c2r) |->
                   [p \in 1..n |->
                      GeneratePass(passes[p], p = n,
                                   Tw3StepOfPass(p, n, fft_3StepTwiddle, fft_twiddleFront),
                                   fft_twiddleFront)]]
     IN  IF \E d \in KernelDirections(r2c2r), p \in 1..n : ~gen[d][p].nextPassNull
         THEN /\ pc' = "fatal"
              /\ err' = "assert_nextPass_null"
              /\ UNCHANGED kern
         ELSE /\ pc' = "generated"
              /\ UNCHANGED err
              /\ kern' = [generated |-> TRUE,
                          tw3 |-> fft_3StepTwiddle,
                          front |-> fft_twiddleFront,
                          passes |-> gen,
                          calls |-> [d \in KernelDirections(r2c2r) |->
                                       [p \in 1..n |->
                                          PassCall(p, n, fft_3StepTwiddle,
                                                   fft_twiddleFront)]]]
  /\ UNCHANGED << length, pr, MAX_WGS, fromTable, wgs, nt, fft_R, fft_SIMD,
                  numTrans, cnPerWI, LS, R, radices, passes, numPasses,
                  count, realHalf, globalWS, localWS >>
  /\ UNCHANGED << twVars, runVars, gridVars, repoVars, hipVars, existVars,
                  sweepVars, concVars >>

\* lengths whose last pass is emitted
SweepLengths == {4, 8, 12, 16, 28, 32, 48, 64}

InitSweep ==
  /\ Init
  /\ length \in SweepLengths
  /\ MAX_WGS \in {MinWGS, MaxWGSLimit}

NextSweep ==
  \/ Next
  \/ (\E il \in BOOLEAN, st \in OutStrides, grp \in BOOLEAN :
        SweepRegsWrite(il, st, grp))
  \/ (\E r2c2r \in BOOLEAN, tw3 \in BOOLEAN, front \in BOOLEAN :
        GenerateKernel(r2c2r, tw3, front))

SpecSweep == InitSweep /\ [][NextSweep]_vars

(***************************************************************************)
(* The generated kernel in realSpecial mode: the loop around the pass calls *)
(***************************************************************************)
\* largest fft_N[1] and fft_realSpecial_Nr of a launch that is followed
MaxNr == 3

IsBarrier(ins) == ins.op = "barrier"

\* for(uint t=0; t<2; t++) { pass calls; if(...) break; ... }, unrolled:
\* the barriers of the pass calls and the break of each iteration
SpecialProgram ==
  SelectSeq(Program, IsBarrier) \o << Ins("break", 0, "-", FALSE) >>
    \o SelectSeq(Program, IsBarrier) \o << Ins("break", 1, "-", FALSE) >>

\* unsigned int b for the 3-step twiddle, copied to bt in realSpecial mode
Tw3StepB(batch, me, N1) ==
  IF numTrans = 1 THEN batch % N1
  ELSE (batch * numTrans + (me \div workGroupSizePerTrans)) % N1

\* if( (bt == 0) || (2*bt == Nr) ) break;
BreakTaken(w) == w.bt = 0 \/ 2 * w.bt = w.Nr

\* the kernel is launched; work-group batch starts
LaunchSpecial(batch, N1, Nr) ==
  /\ pc = "kernel"
  /\ pc' = "special"
  /\ wi' = [g \in WorkItems |->
              [ip |-> 1, n |-> 0, regs |-> << >>,
               bt |-> Tw3StepB(batch, g, N1), Nr |-> Nr]]
  /\ UNCHANGED << err, length, pr, MAX_WGS, fromTable, wgs, nt, fft_R, fft_SIMD,
                  numTrans, cnPerWI, LS, R, radices, passes, numPasses,
                  count, realHalf, globalWS, localWS >>
  /\ UNCHANGED << batchSize, lds >>

Exited(w) == w.ip > Len(SpecialProgram)

AtBarrier(w) == ~Exited(w) /\ SpecialProgram[w.ip].op = "barrier"

\* one statement of work-item g that is not a barrier
SpecialStep(g) ==
  /\ pc = "special"
  /\ ~Exited(wi[g])
  /\ ~AtBarrier(wi[g])
  /\ wi' = [wi EXCEPT ![g].ip =
              IF SpecialProgram[@].op = "break" /\ BreakTaken(wi[g])
              THEN Len(SpecialProgram) + 1
              ELSE @ + 1]
  /\ UNCHANGED << planVars, batchSize, lds >>

\* the barrier is released once every work-item of the group has arrived
SpecialBarrier ==
  /\ pc = "special"
  /\ \A g \in DOMAIN wi : AtBarrier(wi[g])
  /\ wi' = [g \in DOMAIN wi |-> [wi[g] EXCEPT !.ip = @ + 1]]
  /\ UNCHANGED << planVars, batchSize, lds >>

\* work-items wait at a barrier that others, having left the kernel, will
\* not reach: the behaviour is undefined; the waiting work-items stay where
\* they are, or the hardware releases them
SpecialBarrierDiverged ==
  /\ pc = "special"
  /\ \E g \in DOMAIN wi : AtBarrier(wi[g])
  /\ \E g \in DOMAIN wi : Exited(wi[g])
  /\ \A g \in DOMAIN wi : AtBarrier(wi[g]) \/ Exited(wi[g])
  /\ wi' = [g \in DOMAIN wi |->
              IF AtBarrier(wi[g]) THEN [wi[g] EXCEPT !.ip = @ + 1] ELSE wi[g]]
  /\ UNCHANGED << planVars, batchSize, lds >>

NextSpecial ==
  \/ Next
  \/ (\E batch \in 0..1, N1 \in 1..MaxNr, Nr \in 1..MaxNr :
        LaunchSpecial(batch, N1, Nr) /\ UNCHANGED << twVars, libVars >>)
  \/ (\E g \in DOMAIN wi : SpecialStep(g) /\ UNCHANGED << twVars, libVars >>)
  \/ (SpecialBarrier /\ UNCHANGED << twVars, libVars >>)
  \/ (SpecialBarrierDiverged /\ UNCHANGED << twVars, libVars >>)

SpecSpecial == InitBarrier /\ [][NextSpecial]_vars

(***************************************************************************)
(* The launch grid: Kernel::OffsetCalc for one-dimensional batched data    *)
(***************************************************************************)
\* number of work-groups of the launch that are followed
MaxGroups == 3

\* the index with the group stride left out
TransformIndex_NoGroupStride(real, batch, me, second) ==
  batch + (me \div workGroupSizePerTrans) + (IF second THEN 1 ELSE 0)

\* the string 'batch' of OffsetCalc: the transform a work-item works on;
\* real stands for r2c2r && !rcSimple, second for rc_second_index
TransformIndex(real, batch, me, second) ==
  IF real
  THEN batch * (2 * numTrans) + (IF second THEN 1 ELSE 0)
         + (IF numTrans # 1 THEN 2 * (me \div workGroupSizePerTrans) ELSE 0)
  ELSE IF numTrans = 1 THEN batch
  ELSE batch * numTrans + (me \div workGroupSizePerTrans)

\* the offsets a work-item sets up: iOffset/oOffset, and iOffset2/oOffset2
\* for real transforms that are not RC-simple
Seconds(real) == IF real THEN BOOLEAN ELSE {FALSE}

\* work-group b (tidx.tile[0] = b) starts: each of its work-items
\* (tidx.local[0] = me) sets up its memory pointers
GroupRun(b) ==
  /\ pc = "kernel"
  /\ b \notin grid.started
  /\ \E real \in BOOLEAN :
       /\ grid.started = { } \/ real = grid.real
       /\ grid' = [real |-> real,
                   started |-> grid.started \cup {b},
                   assigned |-> grid.assigned \cup
                     { [idx |-> TransformIndex(real, b, me, s), batch |-> b,
                        slot |-> me \div workGroupSizePerTrans, second |-> s] :
                         me \in 0..(fft_SIMD - 1), s \in Seconds(real) }]
  /\ UNCHANGED << planVars, twVars, runVars, repoVars, hipVars, existVars, sweepVars, kernVars, concVars >>

\* unsigned int arithmetic of the kernel; the word is narrowed to 16 bits,
\* wider than every quantity the guard computes from MaxT transforms
U32(x) == x % 65536

\* grdExt.tile(lWorkSize[0]): the number of work-groups of a launch of T
\* transforms, with the sizes GetWorkSizesPvt returns
LaunchedGroups(T, half) ==
  GlobalWorkSize(length, T, fft_R, fft_SIMD, half) \div fft_SIMD

\* the guard with the group stride numTrans for real transforms too
RwGuard_SingleStride(real, T, batch, me) ==
  IF real
  THEN LET thisvar == U32(T - batch * numTrans)
       IN  IF me < U32(((U32(thisvar + 1)) \div 2) * workGroupSizePerTrans)
           THEN U32(thisvar - 2 * (me \div workGroupSizePerTrans))
           ELSE 0
  ELSE IF numTrans > 1
  THEN (IF me < U32(U32(T - batch * numTrans) * workGroupSizePerTrans) THEN 1 ELSE 0)
  ELSE 1

\* unsigned int rw of work-item me of work-group batch, T = totalBatch;
\* real stands for r2c2r && !rcSimple
RwGuard(real, T, batch, me) ==
  IF real
  THEN LET thisvar == U32(T - batch * (2 * numTrans))
       IN  IF me < U32(((U32(thisvar + 1)) \div 2) * workGroupSizePerTrans)
           THEN U32(thisvar - 2 * (me \div workGroupSizePerTrans))
           ELSE 0
  ELSE IF numTrans > 1
  THEN (IF me < U32(U32(T - batch * numTrans) * workGroupSizePerTrans) THEN 1 ELSE 0)
  ELSE 1

\* lengths whose launch grid is followed
GridLengths == {8, 9, 21, 25, 49, 128, 343, 512}

InitGrid ==
  /\ Init
  /\ length \in GridLengths
  /\ MAX_WGS \in {MinWGS, MaxWGSLimit}

NextGrid ==
  \/ Next
  \/ (\E b \in 0..(MaxGroups - 1) : GroupRun(b))

SpecGrid == InitGrid /\ [][NextGrid]_vars

(***************************************************************************)
(* FFTRepo: the plan repository                                            *)
(*                                                                         *)
(* repoPlans and mapFFTs are std::map: functions with a growing domain.    *)
(* Plans and locks are heap objects, known by an address; repo.live and    *)
(* repo.freed are the addresses allocated and the addresses deleted.       *)
(* Deleting or locking a deleted object is undefined: the call either      *)
(* crashes the process or goes on as if the object were still there.       *)
(***************************************************************************)
\* number of calls a client makes
MaxRepoOps == 4

Generators == {"Stockham", "Transpose"}

Directions == {"AMPFFT_FORWARD", "AMPFFT_BACKWARD", "ENDDIRECTION"}

KernelParams == {"paramsA", "paramsB"}

KernelStrings == { <<"kernelA">>, <<"kernelB">> }

\* (kernel_fwd, kernel_back) arguments of setProgramEntryPoints
EntryPairs == { << <<"fft_fwd">>, <<"fft_back">> >>, << <<"fft_fwd2">>, EmptyString >> }

\* handles a client passes to getPlan and deletePlan
PlanHandles == 0..3

\* handles a client passes to the program-code calls
CodeHandles == 1..2

\* the copyright statement prefixed to generated kernels
prefixCopyright == <<"Copyright 2013 MCW, Inc.">>

MapPut(m, k, v) == [x \in DOMAIN m \cup {k} |-> IF x = k THEN v ELSE m[x]]

MapErase(m, k) == [x \in DOMAIN m \ {k} |-> m[x]]

\* std::make_pair( gen, handle ): the kernel parameters are not part of it
fftRepoKey(gen, handle) == << gen, handle >>

\* mapFFTs[ key ]: inserts a default value if the key is absent
MapFFTsAt(m, key) == IF key \in DOMAIN m THEN m ELSE MapPut(m, key, fftRepoValue)

\* the addresses operator new may return: a fresh one or a deleted one
Fresh(live, freed) ==
  CHOOSE a \in 0..Cardinality(live \cup freed) : a \notin live \cup freed

NewAddresses(live, freed) == freed \cup {Fresh(live, freed)}

\* delete p on the heap h = [live, freed, ub]
Delete(h, p) ==
  IF p \in h.live
  THEN [live |-> h.live \ {p}, freed |-> h.freed \cup {p}, ub |-> h.ub]
  ELSE [h EXCEPT !.ub = TRUE]

\* the loop of releaseResources over the entries in key order
RECURSIVE DeleteEntries(_, _, _)
DeleteEntries(plans, keys, h) ==
  IF keys = { } THEN h
  ELSE LET k == CHOOSE x \in keys : \A y \in keys : x <= y
       IN  DeleteEntries(plans, keys \ {k},
                         Delete(Delete(h, plans[k].plan), plans[k].lock))

Call(op, gen, handle, param, dir, status, out, handleOut) ==
  [op |-> op, gen |-> gen, handle |-> handle, param |-> param, dir |-> dir,
   status |-> status, out |-> out, handleOut |-> handleOut]

CanCall == pc = "repo" /\ ~repo.crashed /\ hist.ops < MaxRepoOps

Counted(h) == [h EXCEPT !.ops = h.ops + 1]

\* the handle of the previous plan is handed out again
createPlan_ReusesLast ==
  /\ CanCall
  /\ \E pl \in NewAddresses(repo.live, repo.freed) :
     \E lk \in NewAddresses(repo.live \cup {pl}, repo.freed \ {pl}) :
       LET h == IF repo.planCount > 1 THEN repo.planCount - 1 ELSE repo.planCount
       IN
       /\ repo' = [repo EXCEPT
                     !.repoPlans = MapPut(repo.repoPlans, h,
                                          [plan |-> pl, lock |-> lk]),
                     !.planCount = repo.planCount + 1,
                     !.live = repo.live \cup {pl, lk},
                     !.freed = repo.freed \ {pl, lk}]
       /\ ret' = Call("createPlan", "-", -1, "-", "-", "AMPFFT_SUCCESS",
                      << pl, lk >>, h)
       /\ hist' = [Counted(hist) EXCEPT !.held = hist.held \cup {h}]

\* fftPlan = new FFTPlan; lockPlan = new lockRAII;
\* repoPlans[ planCount ] = make_pair( fftPlan, lockPlan ); *plHandle = planCount++
createPlan ==
  /\ CanCall
  /\ \E pl \in NewAddresses(repo.live, repo.freed) :
     \E lk \in NewAddresses(repo.live \cup {pl}, repo.freed \ {pl}) :
       /\ repo' = [repo EXCEPT
                     !.repoPlans = MapPut(repo.repoPlans, repo.planCount,
                                          [plan |-> pl, lock |-> lk]),
                     !.planCount = repo.planCount + 1,
                     !.live = repo.live \cup {pl, lk},
                     !.freed = repo.freed \ {pl, lk}]
       /\ ret' = Call("createPlan", "-", -1, "-", "-", "AMPFFT_SUCCESS",
                      << pl, lk >>, repo.planCount)
       /\ hist' = [Counted(hist) EXCEPT !.held = hist.held \cup {repo.planCount}]

getPlan(plHandle) ==
  /\ CanCall
  /\ IF plHandle \notin DOMAIN repo.repoPlans
     THEN ret' = Call("getPlan", "-", plHandle, "-", "-", "AMPFFT_ERROR", << >>, plHandle)
     ELSE ret' = Call("getPlan", "-", plHandle, "-", "-", "AMPFFT_SUCCESS",
                      << repo.repoPlans[plHandle].plan, repo.repoPlans[plHandle].lock >>,
                      plHandle)
  /\ hist' = Counted(hist)
  /\ UNCHANGED repo

\* the entry is locked through its lock, the plan and the lock are deleted,
\* the entry is erased and the caller's handle is cleared
deletePlan(plHandle) ==
  /\ CanCall
  /\ IF plHandle \notin DOMAIN repo.repoPlans
     THEN /\ ret' = Call("deletePlan", "-", plHandle, "-", "-", "AMPFFT_ERROR", << >>, plHandle)
          /\ hist' = Counted(hist)
          /\ UNCHANGED repo
     ELSE LET e  == repo.repoPlans[plHandle]
              h0 == [live |-> repo.live, freed |-> repo.freed,
                     ub |-> e.lock \notin repo.live]
              h1 == Delete(Delete(h0, e.plan), e.lock)
          IN  \E crash \in (IF h1.ub THEN BOOLEAN ELSE {FALSE}) :
                IF crash
                THEN /\ repo' = [repo EXCEPT !.crashed = TRUE]
                     /\ ret' = Call("deletePlan", "-", plHandle, "-", "-", "crash", << >>, plHandle)
                     /\ hist' = Counted(hist)
                ELSE /\ repo' = [repo EXCEPT
                                   !.repoPlans = MapErase(repo.repoPlans, plHandle),
                                   !.live = h1.live, !.freed = h1.freed]
                     /\ ret' = Call("deletePlan", "-", plHandle, "-", "-", "AMPFFT_SUCCESS", << >>, 0)
                     /\ hist' = [Counted(hist) EXCEPT !.held = hist.held \ {plHandle}]

setProgramEntryPoints(gen, handle, fftParam, names) ==
  /\ CanCall
  /\ LET key == fftRepoKey(gen, handle)
         m   == MapFFTsAt(repo.mapFFTs, key)
     IN  repo' = [repo EXCEPT !.mapFFTs =
                    [m EXCEPT ![key].EntryPoint_fwd = names[1],
                              ![key].EntryPoint_back = names[2]]]
  /\ ret' = Call("setProgramEntryPoints", gen, handle, fftParam, "-", "AMPFFT_SUCCESS", << >>, handle)
  /\ hist' = [Counted(hist) EXCEPT !.entry = MapPut(hist.entry, << gen, handle >>, names)]

getProgramEntryPoint(gen, handle, fftParam, dir) ==
  /\ CanCall
  /\ hist' = Counted(hist)
  /\ LET key == fftRepoKey(gen, handle)
     IN  IF key \notin DOMAIN repo.mapFFTs
         THEN /\ ret' = Call("getProgramEntryPoint", gen, handle, fftParam, dir, "AMPFFT_ERROR", << >>, handle)
              /\ UNCHANGED repo
         ELSE IF dir \notin {"AMPFFT_FORWARD", "AMPFFT_BACKWARD"}
         THEN /\ ret' = Call("getProgramEntryPoint", gen, handle, fftParam, dir, "assert", << >>, handle)
              /\ repo' = [repo EXCEPT !.crashed = TRUE]
         ELSE LET kernel == IF dir = "AMPFFT_FORWARD"
                            THEN repo.mapFFTs[key].EntryPoint_fwd
                            ELSE repo.mapFFTs[key].EntryPoint_back
              IN  /\ ret' = Call("getProgramEntryPoint", gen, handle, fftParam, dir,
                                 IF Len(kernel) = 0 THEN "AMPFFT_ERROR" ELSE "AMPFFT_SUCCESS",
                                 kernel, handle)
                  /\ UNCHANGED repo

\* mapFFTs[ key ].ProgramString = prefixCopyright + kernel
setProgramCode(gen, handle, fftParam, kernel) ==
  /\ CanCall
  /\ LET key == fftRepoKey(gen, handle)
         m   == MapFFTsAt(repo.mapFFTs, key)
     IN  repo' = [repo EXCEPT !.mapFFTs =
                    [m EXCEPT ![key].ProgramString = prefixCopyright \o kernel]]
  /\ ret' = Call("setProgramCode", gen, handle, fftParam, "-", "AMPFFT_SUCCESS", << >>, handle)
  /\ hist' = [Counted(hist) EXCEPT !.code = MapPut(hist.code, << gen, handle >>, kernel)]

getProgramCode(gen, handle, fftParam) ==
  /\ CanCall
  /\ hist' = Counted(hist)
  /\ UNCHANGED repo
  /\ LET key == fftRepoKey(gen, handle)
     IN  IF key \notin DOMAIN repo.mapFFTs
         THEN ret' = Call("getProgramCode", gen, handle, fftParam, "-", "AMPFFT_ERROR", << >>, handle)
         ELSE ret' = Call("getProgramCode", gen, handle, fftParam, "-", "AMPFFT_SUCCESS",
                          repo.mapFFTs[key].ProgramString, handle)

\* every plan and lock of repoPlans is deleted, planCount = 1, mapFFTs is
\* cleared; repoPlans itself is not touched
releaseResources ==
  /\ CanCall
  /\ LET h0 == [live |-> repo.live, freed |-> repo.freed, ub |-> FALSE]
         h1 == DeleteEntries(repo.repoPlans, DOMAIN repo.repoPlans, h0)
     IN  \E crash \in (IF h1.ub THEN BOOLEAN ELSE {FALSE}) :
           IF crash
           THEN /\ repo' = [repo EXCEPT !.crashed = TRUE]
                /\ ret' = Call("releaseResources", "-", -1, "-", "-", "crash", << >>, -1)
                /\ hist' = Counted(hist)
           ELSE /\ repo' = [repo EXCEPT !.live = h1.live, !.freed = h1.freed,
                                        !.planCount = 1, !.mapFFTs = << >>]
                /\ ret' = Call("releaseResources", "-", -1, "-", "-", "AMPFFT_SUCCESS", << >>, -1)
                /\ hist' = [Counted(hist) EXCEPT !.held = { }, !.released = TRUE,
                                                 !.code = << >>, !.entry = << >>]

InitRepo ==
  /\ pc = "repo"
  /\ err = "none"
  /\ length = 0 /\ pr = "P_SINGLE" /\ MAX_WGS = 0
  /\ fromTable = FALSE
  /\ wgs = 0 /\ nt = 0 /\ fft_R = 0 /\ fft_SIMD = 0
  /\ numTrans = 0 /\ cnPerWI = 0 /\ LS = 0 /\ R = 0
  /\ radices = << >> /\ passes = << >> /\ numPasses = -1
  /\ count = 0 /\ realHalf = FALSE /\ globalWS = 0 /\ localWS = 0
  /\ TwIdle
  /\ RunIdle
  /\ LibIdle

RepoFrame ==
  UNCHANGED << planVars, twVars, runVars, gridVars, hipVars, existVars, sweepVars, kernVars, concVars >>

NextRepo ==
  \/ (createPlan /\ RepoFrame)
  \/ (\E h \in PlanHandles : getPlan(h) /\ RepoFrame)
  \/ (\E h \in PlanHandles : deletePlan(h) /\ RepoFrame)
  \/ (\E g \in Generators, h \in CodeHandles, fp \in KernelParams, e \in EntryPairs :
        setProgramEntryPoints(g, h, fp, e) /\ RepoFrame)
  \/ (\E g \in Generators, h \in CodeHandles, fp \in KernelParams, d \in Directions :
        getProgramEntryPoint(g, h, fp, d) /\ RepoFrame)
  \/ (\E g \in Generators, h \in CodeHandles, fp \in KernelParams, k \in KernelStrings :
        setProgramCode(g, h, fp, k) /\ RepoFrame)
  \/ (\E g \in Generators, h \in CodeHandles, fp \in KernelParams :
        getProgramCode(g, h, fp) /\ RepoFrame)
  \/ (releaseResources /\ RepoFrame)

SpecRepo == InitRepo /\ [][NextRepo]_vars

(***************************************************************************)
(* FFTRepo under two threads: thread A looks plan h up, locks it and         *)
(* generates its kernel; thread B deletes a plan                            *)
(***************************************************************************)
\* the handles of the two plans created before the threads start
ThreadHandles == {1, 2}

ConcFrame ==
  UNCHANGED << planVars, twVars, runVars, gridVars, repoVars, hipVars,
               existVars, sweepVars, kernVars >>

\* two createPlan calls have returned handles 1 and 2; thread A is about to
\* call getPlan(hA), thread B deletePlan(hB)
ConcStart(hA, hB) ==
  /\ pc = "threads"
  /\ ~conc.started
  /\ conc' = [started    |-> TRUE,
              repoPlans  |-> ThreadHandles,
              freedPlans |-> { },
              freedLocks |-> { },
              lockRepo   |-> "free",
              lockPlan   |-> [h \in ThreadHandles |-> "free"],
              mapFFTs    |-> [code |-> { }, entry |-> { }],
              A          |-> [pc |-> "getPlan", h |-> hA],
              B          |-> [pc |-> "deletePlan", h |-> hB],
              useAfterFree |-> { }]
  /\ ConcFrame

\* scopedLock sLock( lockRepo, ... ) of thread t, which goes on at 'next'
EnterRepo(t, at, next) ==
  /\ conc.started
  /\ conc[t].pc = at
  /\ conc.lockRepo = "free"
  /\ conc' = [conc EXCEPT !.lockRepo = t, ![t].pc = next]
  /\ ConcFrame

\* getPlan: the lookup, the copy of the two pointers, the return
A_getPlan ==
  /\ conc.started
  /\ conc.A.pc = "getPlan_find"
  /\ conc' = [conc EXCEPT !.lockRepo = "free",
                          !.A.pc = IF conc.A.h \in conc.repoPlans
                                   THEN "scopedLock" ELSE "returned"]
  /\ ConcFrame

\* the caller locks the plan: scopedLock sLock( *planLock, ... ).  On a lock
\* that was deleted the behaviour is undefined: the thread gets through,
\* waits for ever, or crashes
A_scopedLock ==
  /\ conc.started
  /\ conc.A.pc = "scopedLock"
  /\ IF conc.A.h \in conc.freedLocks
     THEN \E outcome \in {"GenerateKernelPvt", "hung", "crashed"} :
            conc' = [conc EXCEPT !.A.pc = outcome,
                                 !.useAfterFree = @ \cup {"planLock"}]
     ELSE /\ conc.lockPlan[conc.A.h] = "free"
          /\ conc' = [conc EXCEPT !.lockPlan[conc.A.h] = "A",
                                  !.A.pc = "GenerateKernelPvt"]
  /\ ConcFrame

\* GenerateKernelPvt up to the calls of the repository: reads the plan
A_GenerateKernelPvt ==
  /\ conc.started
  /\ conc.A.pc = "GenerateKernelPvt"
  /\ IF conc.A.h \in conc.freedPlans
     THEN \E outcome \in {"setProgramCode", "crashed"} :
            conc' = [conc EXCEPT !.A.pc = outcome,
                                 !.useAfterFree = @ \cup {"plan"}]
     ELSE conc' = [conc EXCEPT !.A.pc = "setProgramCode"]
  /\ ConcFrame

\* setProgramCode under the repository lock
A_setProgramCode ==
  /\ conc.started
  /\ conc.A.pc = "setProgramCode_body"
  /\ conc' = [conc EXCEPT !.lockRepo = "free",
                          !.mapFFTs.code = @ \cup {conc.A.h},
                          !.A.pc = "setProgramEntryPoints"]
  /\ ConcFrame

\* setProgramEntryPoints under the repository lock
A_setProgramEntryPoints ==
  /\ conc.started
  /\ conc.A.pc = "setProgramEntryPoints_body"
  /\ conc' = [conc EXCEPT !.lockRepo = "free",
                          !.mapFFTs.entry = @ \cup {conc.A.h},
                          !.A.pc = "unlock"]
  /\ ConcFrame

\* the caller's scopedLock on the plan goes out of scope
A_unlock ==
  /\ conc.started
  /\ conc.A.pc = "unlock"
  /\ conc' = [conc EXCEPT !.lockPlan[conc.A.h] = IF @ = "A" THEN "free" ELSE @,
                          !.useAfterFree = IF conc.A.h \in conc.freedLocks
                                           THEN @ \cup {"planLock"} ELSE @,
                          !.A.pc = "returned"]
  /\ ConcFrame

\* deletePlan: the lookup
B_find ==
  /\ conc.started
  /\ conc.B.pc = "deletePlan_find"
  /\ IF conc.B.h \in conc.repoPlans
     THEN conc' = [conc EXCEPT !.B.pc = "scopedLock"]
     ELSE conc' = [conc EXCEPT !.lockRepo = "free", !.B.pc = "returned"]
  /\ ConcFrame

\* deletePlan: scopedLock sLock( *iter->second.second, ... ), with the
\* repository lock held
B_scopedLock ==
  /\ conc.started
  /\ conc.B.pc = "scopedLock"
  /\ conc.lockPlan[conc.B.h] = "free"
  /\ conc' = [conc EXCEPT !.lockPlan[conc.B.h] = "B", !.B.pc = "delete_plan"]
  /\ ConcFrame

\* deletePlan: delete iter->second.first; the plan lock is given back at the
\* end of the block
B_deletePlanObject ==
  /\ conc.started
  /\ conc.B.pc = "delete_plan"
  /\ conc' = [conc EXCEPT !.freedPlans = @ \cup {conc.B.h},
                          !.lockPlan[conc.B.h] = "free",
                          !.B.pc = "delete_lock"]
  /\ ConcFrame

\* deletePlan: delete iter->second.second
B_deleteLock ==
  /\ conc.started
  /\ conc.B.pc = "delete_lock"
  /\ conc' = [conc EXCEPT !.freedLocks = @ \cup {conc.B.h}, !.B.pc = "erase"]
  /\ ConcFrame

\* deletePlan: repoPlans.erase( iter ), *plHandle = 0, return
B_erase ==
  /\ conc.started
  /\ conc.B.pc = "erase"
  /\ conc' = [conc EXCEPT !.repoPlans = @ \ {conc.B.h},
                          !.lockRepo = "free",
                          !.B.pc = "returned"]
  /\ ConcFrame

ThreadA ==
  \/ EnterRepo("A", "getPlan", "getPlan_find")
  \/ A_getPlan
  \/ A_scopedLock
  \/ A_GenerateKernelPvt
  \/ EnterRepo("A", "setProgramCode", "setProgramCode_body")
  \/ A_setProgramCode
  \/ EnterRepo("A", "setProgramEntryPoints", "setProgramEntryPoints_body")
  \/ A_setProgramEntryPoints
  \/ A_unlock

ThreadB ==
  \/ EnterRepo("B", "deletePlan", "deletePlan_find")
  \/ B_find
  \/ B_scopedLock
  \/ B_deletePlanObject
  \/ B_deleteLock
  \/ B_erase

InitConc ==
  /\ pc = "threads"
  /\ err = "none"
  /\ length = 0 /\ pr = "P_SINGLE" /\ MAX_WGS = 0
  /\ fromTable = FALSE
  /\ wgs = 0 /\ nt = 0 /\ fft_R = 0 /\ fft_SIMD = 0
  /\ numTrans = 0 /\ cnPerWI = 0 /\ LS = 0 /\ R = 0
  /\ radices = << >> /\ passes = << >> /\ numPasses = -1
  /\ count = 0 /\ realHalf = FALSE /\ globalWS = 0 /\ localWS = 0
  /\ TwIdle
  /\ RunIdle
  /\ LibIdle

NextConc ==
  \/ (\E hA, hB \in ThreadHandles : ConcStart(hA, hB))
  \/ ThreadA
  \/ ThreadB

SpecConc == InitConc /\ [][NextConc]_vars

\* each thread is scheduled again and again: a step it can take is taken
SpecConcFair == SpecConc /\ WF_vars(ThreadA) /\ WF_vars(ThreadB)

(***************************************************************************)
(* The hipfft wrappers                                                     *)
(***************************************************************************)
\* the names of the case labels of hipHCFFTResultToHIPFFTResult
ListedNames ==
  { "SUCCESS", "INVALID_PLAN", "ALLOC_FAILED", "INVALID_TYPE", "INVALID_VALUE",
    "INTERNAL_ERROR", "EXEC_FAILED", "SETUP_FAILED", "INVALID_SIZE",
    "UNALIGNED_DATA", "INCOMPLETE_PARAMETER_LIST", "INVALID_DEVICE",
    "PARSE_ERROR", "NO_WORKSPACE" }

\* values of hcfftResult without a case label
UnlistedNames == { "NOT_IMPLEMENTED", "LICENSE_ERROR" }

\* what a wrapped hcfft call may return
HcfftResults == { Code("HCFFT", n) : n \in ListedNames \cup UnlistedNames }

\* the switch with the case of INVALID_SIZE returning HIPFFT_INVALID_VALUE
ResultCases_SizeAsValue ==
  [ c \in { Code("HCFFT", n) : n \in ListedNames } |->
      IF c.name = "INVALID_SIZE" THEN Code("HIPFFT", "INVALID_VALUE")
                                 ELSE Code("HIPFFT", c.name) ]

\* the switch: case label -> returned value
ResultCases ==
  (Code("HCFFT", "SUCCESS") :> Code("HIPFFT", "SUCCESS"))
  @@ (Code("HCFFT", "INVALID_PLAN") :> Code("HIPFFT", "INVALID_PLAN"))
  @@ (Code("HCFFT", "ALLOC_FAILED") :> Code("HIPFFT", "ALLOC_FAILED"))
  @@ (Code("HCFFT", "INVALID_TYPE") :> Code("HIPFFT", "INVALID_TYPE"))
  @@ (Code("HCFFT", "INVALID_VALUE") :> Code("HIPFFT", "INVALID_VALUE"))
  @@ (Code("HCFFT", "INTERNAL_ERROR") :> Code("HIPFFT", "INTERNAL_ERROR"))
  @@ (Code("HCFFT", "EXEC_FAILED") :> Code("HIPFFT", "EXEC_FAILED"))
  @@ (Code("HCFFT", "SETUP_FAILED") :> Code("HIPFFT", "SETUP_FAILED"))
  @@ (Code("HCFFT", "INVALID_SIZE") :> Code("HIPFFT", "INVALID_SIZE"))
  @@ (Code("HCFFT", "UNALIGNED_DATA") :> Code("HIPFFT", "UNALIGNED_DATA"))
  @@ (Code("HCFFT", "INCOMPLETE_PARAMETER_LIST") :> Code("HIPFFT", "INCOMPLETE_PARAMETER_LIST"))
  @@ (Code("HCFFT", "INVALID_DEVICE") :> Code("HIPFFT", "INVALID_DEVICE"))
  @@ (Code("HCFFT", "PARSE_ERROR") :> Code("HIPFFT", "PARSE_ERROR"))
  @@ (Code("HCFFT", "NO_WORKSPACE") :> Code("HIPFFT", "NO_WORKSPACE"))

\* default: throw "Unimplemented Result"
hipHCFFTResultToHIPFFTResult(hcResult) ==
  IF hcResult \in DOMAIN ResultCases
  THEN [thrown |-> "-", result |-> ResultCases[hcResult]]
  ELSE [thrown |-> "Unimplemented Result", result |-> NoCode]

\* the case labels of hipHIPFFTTypeToHCFFTType
ListedTypes == { "R2C", "C2R", "C2C", "D2Z", "Z2D", "Z2Z" }

HipfftTypes == ListedTypes \cup { "OTHER" }

\* hipfftPlan1d, hipfftPlan2d, hipfftPlan3d: the type is converted first,
\* then the plan call is made and its result converted
PlanWrappers == { "hipfftPlan1d", "hipfftPlan2d", "hipfftPlan3d" }

\* the wrappers that pass their arguments through
PlainWrappers ==
  { "hipfftCreate", "hipfftSetStream", "hipfftDestroy", "hipfftExecC2C",
    "hipfftExecZ2Z", "hipfftExecR2C", "hipfftExecD2Z", "hipfftExecC2R",
    "hipfftExecZ2D" }

hipfftPlan(fn) ==
  /\ pc = "hip"
  /\ \E type \in HipfftTypes :
       IF type \notin ListedTypes
       THEN hip' = [fn |-> fn, hc |-> NoCode, type |-> type,
                    thrown |-> "Unimplemented Type", result |-> NoCode]
       ELSE \E hc \in HcfftResults :
              hip' = [fn |-> fn, hc |-> hc, type |-> type]
                       @@ hipHCFFTResultToHIPFFTResult(hc)

hipfftCall(fn) ==
  /\ pc = "hip"
  /\ \E hc \in HcfftResults :
       hip' = [fn |-> fn, hc |-> hc, type |-> "-"] @@ hipHCFFTResultToHIPFFTResult(hc)

InitHip ==
  /\ pc = "hip"
  /\ err = "none"
  /\ length = 0 /\ pr = "P_SINGLE" /\ MAX_WGS = 0
  /\ fromTable = FALSE
  /\ wgs = 0 /\ nt = 0 /\ fft_R = 0 /\ fft_SIMD = 0
  /\ numTrans = 0 /\ cnPerWI = 0 /\ LS = 0 /\ R = 0
  /\ radices = << >> /\ passes = << >> /\ numPasses = -1
  /\ count = 0 /\ realHalf = FALSE /\ globalWS = 0 /\ localWS = 0
  /\ TwIdle
  /\ RunIdle
  /\ LibIdle

HipFrame ==
  UNCHANGED << planVars, twVars, runVars, gridVars, repoVars, existVars, sweepVars, kernVars, concVars >>

NextHip ==
  \/ (\E fn \in PlanWrappers : hipfftPlan(fn) /\ HipFrame)
  \/ (\E fn \in PlainWrappers : hipfftCall(fn) /\ HipFrame)

SpecHip == InitHip /\ [][NextHip]_vars

(***************************************************************************)
(* Properties                                                              *)
(***************************************************************************)
SupportedPrimes == {2, 3, 5, 7, 11, 13}

IsPrime(p) == p > 1 /\ \A d \in 2..(p - 1) : p % d # 0

\* every prime factor of len is a supported prime
Supported(len) ==
  \A p \in 2..len : (len % p = 0 /\ IsPrime(p)) => p \in SupportedPrimes

SeqRange(s) == { s[x] : x \in DOMAIN s }

\* C1: whenever planning of a length succeeds (the Kernel constructor
\* returns), on the lookup path and on the greedy path alike, the product of
\* the radix sequence is the length and every radix is one of
\* 1,2,3,4,5,6,7,8,10,11,13.
C1_RadixProduct ==
  pc = "kernel" =>
    /\ Product(radices) = length
    /\ SeqRange(radices) \subseteq RadixSet
    /\ numPasses = Len(radices)

C1_Witness ==
  /\ pc = "kernel" /\ ~UseTable /\ length = 60
  /\ Len(radices) >= 2 /\ Cardinality(SeqRange(radices)) >= 2

\* C2 (as claimed): DetermineSizes never returns a work-group size above the
\* device limit, i.e. its final assertion never fires.
C2_WorkGroupBound ==
  (pc # "start" /\ ~fromTable /\ Supported(length)) =>
    /\ err # "assert_workGroupSize_le_MAX_WGS"
    /\ wgs <= MAX_WGS

\* C3 (as claimed): for every supported length > 1 the factoring and the
\* policy of DetermineSizes raise no fatal error.
C3_NoFatalError ==
  (pc # "start" /\ ~fromTable /\ length > 1 /\ Supported(length)) =>
    err \notin {"assert_unsupported_length", "assert_length_mod_leastNumPerWI"}

\* C4: a length > 1 with a prime factor outside 2,3,5,7,11,13 ends planning in
\* the unsupported-length error, and no geometry, radix sequence or launch
\* size is produced.
C4_UnsupportedLength ==
  (pc # "start" /\ length > 1 /\ ~Supported(length)) =>
    /\ pc = "fatal" /\ err = "assert_unsupported_length"
    /\ wgs = 0 /\ nt = 0 /\ fft_R = 0 /\ fft_SIMD = 0
    /\ radices = << >> /\ passes = << >> /\ globalWS = 0

C4_Witness == pc = "fatal" /\ length = 34 /\ err = "assert_unsupported_length"

\* position in wc of the entry of stage s (1-based), k and j
StageLS(rads, s) == Product(SubSeq(rads, 1, s - 1))

TwIndex(rads, s, k, j) == (StageLS(rads, s) - 1) + k * (rads[s] - 1) + (j - 1)

\* C5: for a radix sequence of product N > 1 the table builder writes exactly
\* the N-1 entries 0..N-2; the stage of prior stride LS and radix r writes
\* LS*(r-1) of them, one per k in [0,LS) and j in [1,r), in that order.
C5_TwiddleCount ==
  (tw.pc = "done" /\ N > 1) =>
    /\ Written(tw) = 0..(N - 2)
    /\ tw.nt = N - 1
    /\ \A s \in 1..Len(twRadices) :
         /\ Cardinality({ x \in Written(tw) : tw.wc[x].stage = s })
              = StageLS(twRadices, s) * (twRadices[s] - 1)
         /\ \A k \in 0..(StageLS(twRadices, s) - 1), j \in 1..(twRadices[s] - 1) :
              tw.wc[TwIndex(twRadices, s, k, j)] =
                [stage |-> s, k |-> k, j |-> j, L |-> StageLS(twRadices, s) * twRadices[s]]

C5_Witness ==
  /\ tw.pc = "done" /\ N = 24 /\ twRadices = <<4, 3, 2>>
  /\ tw.wc[22] = [stage |-> 3, k |-> 11, j |-> 1, L |-> 24]

\* C6 (as claimed): entry 0 is the factor of stage 1, sub-index 1, and its
\* angle is -2*pi/radix_0, i.e. k*j/L = 1/radix_0.
C6_EntryZeroAngle ==
  (tw.pc = "done" /\ N > 1) =>
    /\ tw.wc[0].stage = 1 /\ tw.wc[0].j = 1
    /\ tw.wc[0].k * tw.wc[0].j * twRadices[1] = tw.wc[0].L

\* C6 (amended): entry 0 is the factor of the first stage whose radix is not 1
\* (stage 1 when radix_0 > 1), k = 0, sub-index 1: its angle is 0.
C6_EntryZeroUnit ==
  (tw.pc = "done" /\ N > 1) =>
    LET s0 == CHOOSE s \in 1..Len(twRadices) :
                /\ twRadices[s] > 1
                /\ \A t \in 1..(s - 1) : twRadices[t] = 1
    IN  /\ tw.wc[0] = [stage |-> s0, k |-> 0, j |-> 1, L |-> twRadices[s0]]
        /\ tw.wc[0].k * tw.wc[0].j = 0
        /\ twRadices[1] > 1 => tw.wc[0].stage = 1

C6_Witness ==
  /\ tw.pc = "done" /\ twRadices = <<4, 2>>
  /\ tw.wc[0] = [stage |-> 1, k |-> 0, j |-> 1, L |-> 4]

\* C7 (as claimed): for length 1 the planner yields work-group size 64, 64
\* transforms per group and no pass at all.
C7_ZeroPasses ==
  (length = 1 /\ pc = "kernel") =>
    /\ wgs = 64 /\ nt = 64
    /\ numPasses = 0 /\ passes = << >>

\* C7 (amended): for length 1, any precision and device limit, planning
\* succeeds with work-group size 64 and 64 transforms per group, and the
\* Kernel constructor creates exactly one pass, of radix 1.
C7_OneUnitPass ==
  /\ (length = 1 /\ pc # "start") =>
        /\ pc \notin {"fatal", "diverged"} /\ wgs = 64 /\ nt = 64
  /\ (length = 1 /\ pc = "kernel") =>
        /\ numPasses = 1 /\ radices = <<1>> /\ Len(passes) = 1
        /\ passes[1].radix = 1 /\ passes[1].numButterfly = 1

C7_Witness == length = 1 /\ pc = "kernel" /\ pr = "P_DOUBLE" /\ MAX_WGS = 100

TwiddleEntries(len, rads) == Cardinality(Written(GenerateTwiddleTable(len, rads)))

\* C8 (as claimed): length 8 in single precision is planned as two passes of
\* radices 4 and 2 for every device limit, with a twiddle table of 7 entries.
C8_Length8TwoPasses ==
  (length = 8 /\ pr = "P_SINGLE" /\ pc = "kernel") =>
    /\ numPasses = 2
    /\ radices \in {<<4, 2>>, <<2, 4>>}
    /\ TwiddleEntries(length, radices) = 7

\* C8 (amended): length 8 in single precision is planned as the two passes
\* 4, 2 for device limits >= 256 and as three passes of radix 2 for limits in
\* [64, 256); the twiddle table has 7 entries in both cases.
C8_Length8ByLimit ==
  /\ (length = 8 /\ pr = "P_SINGLE" /\ pc # "start") => pc \notin {"fatal", "diverged"}
  /\ (length = 8 /\ pr = "P_SINGLE" /\ pc = "kernel") =>
        /\ MAX_WGS >= 256 => (numPasses = 2 /\ radices = <<4, 2>>)
        /\ MAX_WGS < 256 => (numPasses = 3 /\ radices = <<2, 2, 2>>)
        /\ Product(radices) = 8
        /\ TwiddleEntries(length, radices) = 7

C8_Witness ==
  /\ length = 8 /\ pr = "P_SINGLE" /\ pc = "kernel" /\ MAX_WGS = 256
  /\ radices = <<4, 2>>

\* C9: the global work size is a positive multiple of the local work size and
\* the number of work-groups G is the least with G*numTrans >= T (G*2*numTrans
\* >= T for real transforms that are not RC-simple).
C9_WorkGroups ==
  pc = "sized" =>
    LET G == globalWS \div localWS
        perGroup == IF realHalf THEN 2 * nt ELSE nt
    IN  /\ localWS = wgs
        /\ globalWS > 0 /\ globalWS % localWS = 0
        /\ G * perGroup >= count
        /\ (G - 1) * perGroup < count

C9_Witness ==
  /\ pc = "sized" /\ realHalf /\ nt = 2 /\ count = 5
  /\ globalWS = 2 * localWS


\* the register parts work-item g has loaded in the read sweep it is in, or
\* in the read sweep it has just completed
Loaded(g) ==
  LET w == wi[g]
  IN  IF w.ip <= Len(Program) /\ Program[w.ip].op = "read"
      THEN { [ins |-> Program[w.ip], reg |-> Accesses(Program[w.ip], PassMe(g))[m].reg] :
               m \in 1..w.n }
      ELSE IF w.ip > 1 /\ w.n = 0 /\ Program[w.ip - 1].op = "read"
      THEN { [ins |-> Program[w.ip - 1], reg |-> Accesses(Program[w.ip - 1], PassMe(g))[m].reg] :
               m \in 1..Len(Accesses(Program[w.ip - 1], PassMe(g))) }
      ELSE { }

LdsSweep(ins) == ins.op \in {"write", "read"}

\* C10: in a half-LDS multi-pass kernel the barriers separate every LDS write
\* sweep from the read sweep that follows it and every read sweep from the
\* next write sweep: each sweep is followed by a barrier in the kernel text,
\* and every value a work-item of an existing transform loads for pass q is
\* the previous pass's output of the same component, never a stale or a
\* premature one.
C10_BarrierSeparation ==
  pc = "running" =>
    /\ \A i \in 1..Len(Program) :
         LdsSweep(Program[i]) => i < Len(Program) /\ Program[i + 1].op = "barrier"
    /\ \A g \in DOMAIN wi :
         Rw(g) = 1 =>
           \A l \in Loaded(g) :
             wi[g].regs[l.reg][l.ins.comp] = Val(l.ins.pass - 1, l.ins.comp)

\* a three-pass kernel of length 8 ran to its end with every work-item of
\* the group having exchanged its registers through lds twice
C10_Witness ==
  /\ pc = "running"
  /\ length = 8
  /\ Len(passes) = 3
  /\ Cardinality(DOMAIN wi) >= 4
  /\ \A g \in DOMAIN wi : wi[g].ip = Len(Program) + 1
  /\ \A a \in 0..(length - 1) : lds[a] = Val(2, "y")


\* C11: the transform index derived from the work-group id and the work-item
\* id is injective across work-groups and across the transform slots of one
\* group, for complex and for real non-simple transforms: whatever the order
\* in which the groups start, no transform is taken by two (group, slot,
\* second-index) triples, and every slot is below numTrans.
C11_TransformIndexInjective ==
  /\ \A a \in grid.assigned : a.slot < numTrans
  /\ Cardinality({ a.idx : a \in grid.assigned }) = Cardinality(grid.assigned)

\* three groups of a real transform with several transforms per group started
C11_Witness ==
  /\ pc = "kernel" /\ grid.real /\ numTrans > 1
  /\ Cardinality(grid.started) >= 3
  /\ \E a \in grid.assigned : a.batch = 2 /\ a.slot = numTrans - 1 /\ a.second


\* the step is the call op of the repository
RepoCall(op) == hist'.ops = hist.ops + 1 /\ ret'.op = op

\* C12: in every sequence of createPlan, getPlan and deletePlan calls,
\* getPlan(h) succeeds exactly when h was returned by an earlier createPlan and
\* has not been deleted since; createPlan never returns the handle of a live
\* plan; deletePlan of an unknown or deleted handle returns an error and
\* leaves the repository unchanged; a successful deletePlan clears the
\* caller's handle and leaves every other plan retrievable.
C12_PlanLifecycle ==
  [][ ~hist'.released =>
        /\ RepoCall("getPlan") =>
             /\ (ret'.status = "AMPFFT_SUCCESS") <=> (ret'.handle \in hist.held)
             /\ ret'.status # "AMPFFT_SUCCESS" => ret'.status = "AMPFFT_ERROR"
        /\ RepoCall("createPlan") =>
             /\ ret'.status = "AMPFFT_SUCCESS"
             /\ ret'.handleOut \notin hist.held
             /\ ret'.handleOut \notin DOMAIN repo.repoPlans
             /\ ret'.handleOut \in DOMAIN repo'.repoPlans
        /\ (RepoCall("deletePlan") /\ ret'.handle \notin hist.held) =>
             /\ ret'.status = "AMPFFT_ERROR"
             /\ repo' = repo
        /\ (RepoCall("deletePlan") /\ ret'.handle \in hist.held) =>
             /\ ret'.status = "AMPFFT_SUCCESS"
             /\ ret'.handleOut = 0
             /\ ret'.handle \notin DOMAIN repo'.repoPlans
             /\ \A h \in hist.held \ {ret'.handle} :
                  /\ h \in DOMAIN repo'.repoPlans
                  /\ repo'.repoPlans[h] = repo.repoPlans[h]
                  /\ {repo.repoPlans[h].plan, repo.repoPlans[h].lock} \subseteq repo'.live
    ]_vars

\* two plans created, the first deleted, the second retrieved
C12_Witness ==
  /\ ~hist.released /\ hist.held = {2} /\ repo.planCount = 3
  /\ ret.op = "getPlan" /\ ret.handle = 2 /\ ret.status = "AMPFFT_SUCCESS"
  /\ ret.out = << repo.repoPlans[2].plan, repo.repoPlans[2].lock >>

\* C13 (as claimed): getProgramCode(g, h) returns the copyright prefix followed
\* by the kernel of the most recent setProgramCode(g, h) and an error when no
\* code was set for (g, h); getProgramEntryPoint(g, h, dir) returns the name
\* most recently set for (g, h) and an error when none was set or the name is
\* empty; the kernel parameters never distinguish entries.
C13_ProgramLookup ==
  LET key == << ret.gen, ret.handle >>
  IN  /\ ret.op = "getProgramCode" =>
           IF key \in DOMAIN hist.code
           THEN /\ ret.status = "AMPFFT_SUCCESS"
                /\ ret.out = prefixCopyright \o hist.code[key]
           ELSE ret.status = "AMPFFT_ERROR"
      /\ (ret.op = "getProgramEntryPoint" /\ ret.dir \in {"AMPFFT_FORWARD", "AMPFFT_BACKWARD"}) =>
           LET name == IF key \notin DOMAIN hist.entry THEN EmptyString
                       ELSE IF ret.dir = "AMPFFT_FORWARD" THEN hist.entry[key][1]
                       ELSE hist.entry[key][2]
           IN  IF name # EmptyString
               THEN ret.status = "AMPFFT_SUCCESS" /\ ret.out = name
               ELSE ret.status = "AMPFFT_ERROR"

\* C14 (as claimed): after releaseResources the repository is empty, the
\* next handle is 1, getPlan fails for every handle issued before, and no
\* later call reaches or frees again an object that releaseResources freed.
C14_ReleaseEmpties ==
  /\ (ret.op = "releaseResources" /\ ret.status = "AMPFFT_SUCCESS") =>
       /\ DOMAIN repo.repoPlans = { }
       /\ repo.mapFFTs = << >>
       /\ repo.planCount = 1
  /\ (hist.released /\ ret.op = "getPlan" /\ ret.handle \notin hist.held) =>
       ret.status = "AMPFFT_ERROR"
  /\ hist.released => ret.status # "crash"


\* C15: every hipfft wrapper returns HIPFFT_SUCCESS exactly when the wrapped
\* hcfft call returns HCFFT_SUCCESS: each of the 14 listed hcfft codes is
\* returned as the hipfft code of the same name, the mapping is injective,
\* and an unlisted code raises an exception instead of returning a status.
C15_ResultMapping ==
  /\ Cardinality(DOMAIN ResultCases) = 14
  /\ \A a, b \in DOMAIN ResultCases : ResultCases[a] = ResultCases[b] => a = b
  /\ (hip.fn # "none" /\ hip.hc # NoCode) =>
       /\ (hip.thrown = "-" /\ hip.result = Code("HIPFFT", "SUCCESS"))
            <=> hip.hc = Code("HCFFT", "SUCCESS")
       /\ hip.hc.name \in ListedNames =>
            hip.thrown = "-" /\ hip.result = Code("HIPFFT", hip.hc.name)
       /\ hip.hc.name \notin ListedNames =>
            hip.thrown = "Unimplemented Result" /\ hip.result = NoCode

C15_Witness ==
  /\ hip.fn = "hipfftExecC2R" /\ hip.hc = Code("HCFFT", "INVALID_SIZE")
  /\ hip.thrown = "-" /\ hip.result = Code("HIPFFT", "INVALID_SIZE")


\* C16 (as claimed): the radix sequence from which GenerateKernelPvt rebuilds
\* the twiddle table for an existing kernel source equals the radix sequence
\* of the Kernel that generated the source for the same parameters.
C16_SameRadices ==
  pc = "reused" => existRadices = radices

\* C17 (as claimed): the greedy loop terminates: on the greedy path with the
\* geometry of DetermineSizes, radix 1 is chosen only for length 1, so the
\* loop never runs on with a remaining factor above 1.
C17_GreedyTerminates ==
  (~fromTable /\ ~UseTable /\ Supported(length)) =>
    /\ pc # "diverged"
    /\ length > 1 => \A x \in DOMAIN radices : radices[x] > 1

\* the largest candidate radix dividing both cn and rem
LargestCommon(cn, rem) ==
  CHOOSE c \in RadixSet :
    /\ cn % c = 0 /\ rem % c = 0
    /\ \A d \in RadixSet : (cn % d = 0 /\ rem % d = 0) => d <= c

\* C18: every radix appended by the greedy loop is the largest member of
\* {13,11,10,8,7,6,5,4,3,2,1} dividing both cnPerWI and the remaining factor
\* at that step; no larger candidate divides both.
C18_LargestRadix ==
  (pc \in {"passes", "kernel", "diverged"} /\ ~UseTable) =>
    \A x \in DOMAIN radices :
      LET rem == length \div Product(SubSeq(radices, 1, x - 1))
      IN  /\ radices[x] = LargestCommon(cnPerWI, rem)
          /\ \A d \in RadixSet :
               d > radices[x] => (cnPerWI % d # 0 \/ rem % d # 0)

\* length 60 with 30 values per work-item: 10 is taken before 6
C18_Witness ==
  /\ pc = "kernel" /\ ~UseTable /\ length = 60 /\ cnPerWI = 30
  /\ radices = <<10, 6>>

\* C19: for every pass of a complete plan, every work-item me of the
\* transform, butterfly index i and radix digit r, the emitted read offset is
\* (k*LS + j) + r*R*LS and the emitted write offset is k*L + j + r*LS, with
\* j = (numButterfly*me + i) mod LS and k = (numButterfly*me + i) div LS,
\* whether the write offset is emitted in the /LS, %LS form or without it.
C19_StockhamOrder ==
  pc \in {"kernel", "reused"} =>
    \A p \in 1..Len(passes) :
      LET ps == passes[p]
      IN  \A me \in 0..(ps.workGroupSize - 1) :
            \A i \in 0..(ps.numButterfly - 1) :
              LET b == ps.numButterfly * me + i
                  j == b % ps.algLS
                  k == b \div ps.algLS
              IN  \A r \in 0..(ps.radix - 1) :
                    /\ ReadOffset(ps, me, i, r)
                         = (k * ps.algLS + j) + r * ps.algR * ps.algLS
                    /\ PassWriteOffset(passes, p, me, i, r)
                         = k * ps.algL + j + r * ps.algLS

\* a complete plan with a pass that writes in the /LS, %LS form at a stride
\* LS > 1 and a pass that writes without it
C19_Witness ==
  /\ pc = "kernel"
  /\ \E p \in 1..Len(passes) :
       /\ passes[p].numButterfly * passes[p].workGroupSize > passes[p].algLS
       /\ passes[p].algLS > 1
       /\ passes[p].workGroupSize > 1
  /\ \E p \in 1..Len(passes) :
       /\ passes[p].numButterfly * passes[p].workGroupSize <= passes[p].algLS
       /\ passes[p].numButterfly > 1
\* C20: when SweepRegs takes the write back with float4 grouping, the stores
\* of every work-item are those the general per-element write path emits for
\* the same pass and stride: the 4-wide store of butterfly pair i and digit r
\* carries the registers (2i)*radix + r and (2i+1)*radix + r to the complex
\* elements numButterfly*me + 2i + r*LS and the one after it.
C20_GroupedStoreSameAsGeneral ==
  sweep.path = "grouped" =>
    LET ps == passes[Len(passes)]
    IN  \A me \in DOMAIN sweep.stores :
          /\ sweep.stores[me] = LinearStores(ps, me, sweep.stride)
          /\ sweep.stores[me] =
               UNION { LET a == ps.numButterfly * me + 2 * i + r * ps.algLS
                       IN  { Store(a, (2 * i) * ps.radix + r),
                             Store(a + 1, (2 * i + 1) * ps.radix + r) } :
                       r \in 0..(ps.radix - 1),
                       i \in 0..((ps.numButterfly \div 2) - 1) }

\* a grouped write back by several work-items, each with several 4-wide
\* stores per radix digit
C20_Witness ==
  /\ sweep.path = "grouped"
  /\ passes[Len(passes)].workGroupSize > 1
  /\ passes[Len(passes)].numButterfly >= 4
  /\ passes[Len(passes)].radix > 1
\* the assertions of GetKernelGenKeyPvt, of the Kernel constructor and of the
\* Pass constructor
StructuralAssertions ==
  { "assert_nt_length_ge_wgs", "assert_nt_length_mod_wgs",
    "assert_length_numTrans_mod_wgs", "assert_cnPerWI_wgs",
    "assert_cnPerWI_le_length", "assert_cnPerWI_mod_rad", "assert_R_ge_1",
    "assert_R_eq_1", "assert_radix_le_length", "assert_length_mod_radix",
    "assert_butterflies_mod_LS" }

\* C23 (as claimed): for every supported length, precision and device limit
\* the selected geometry has nt*L >= wgs and wgs dividing nt*L, cnPerWI is
\* exact and at most L, every radix divides cnPerWI and L, and no assertion
\* of GetKernelGenKeyPvt, the Kernel constructor or the Pass constructor fires.
C23_NoStructuralAssertion ==
  (pc # "start" /\ Supported(length)) =>
    /\ err \notin StructuralAssertions
    /\ (wgs # 0 => nt * length >= wgs /\ (nt * length) % wgs = 0)
    /\ (pc \in {"kernel", "reused"} =>
          /\ cnPerWI * fft_SIMD = numTrans * length
          /\ cnPerWI <= length
          /\ \A q \in 1..Len(radices) :
                cnPerWI % radices[q] = 0 /\ length % radices[q] = 0)
\* C30: in every pass of a pass chain numButterfly * (length / cnPerWI) is
\* LS * R; in a complete chain it is LS in the final pass and greater than LS
\* in every other pass, so the store of the final pass is never emitted in
\* the /LS, %LS form, and the assertion numButterfly * workGroupSize == LS of
\* the grouped write back never fires.
C30_ButterfliesPerPass ==
  /\ \A p \in 1..Len(passes) :
       LET ps == passes[p]
       IN  /\ ps.numButterfly * (ps.length \div ps.cnPerWI) = ps.algLS * ps.algR
           /\ (pc \in {"kernel", "reused", "written"} =>
                 IF p = Len(passes)
                 THEN /\ ps.numButterfly * ps.workGroupSize = ps.algLS
                      /\ \A me \in 0..(ps.workGroupSize - 1) :
                         \A i \in 0..(ps.numButterfly - 1) :
                           \A r \in 0..(ps.radix - 1) :
                             LastWriteOffset(ps, me, i, r)
                               = ps.numButterfly * me + i + r * ps.algLS
                 ELSE ps.numButterfly * ps.workGroupSize > ps.algLS)
  /\ err # "assert_grouped_butterflies_eq_LS"

\* a chain of three passes or more whose last pass was written back with
\* float4 grouping
C30_Witness ==
  /\ pc = "written"
  /\ sweep.path = "grouped"
  /\ Len(passes) >= 3
\* the (work-item, butterfly, digit) triples of a pass
PassTriples(ps) ==
  (0..(ps.workGroupSize - 1)) \X (0..(ps.numButterfly - 1)) \X (0..(ps.radix - 1))

\* f maps the triples of ps one-to-one onto 0..length-1
OntoCells(ps, offsets) ==
  /\ Cardinality(PassTriples(ps)) = ps.length
  /\ offsets = 0..(ps.length - 1)

\* C25: in every pass of a planned kernel the write offsets of all
\* (work-item, butterfly, digit) triples are pairwise different and cover
\* 0..L-1, and so do the read offsets: no two work-items write the same cell
\* and every cell read by the next pass was written.
C25_OffsetsBijective ==
  pc \in {"kernel", "reused", "written"} =>
    \A p \in 1..Len(passes) :
      LET ps == passes[p]
      IN  /\ OntoCells(ps, { PassWriteOffset(passes, p, t[1], t[2], t[3]) :
                               t \in PassTriples(ps) })
          /\ OntoCells(ps, { ReadOffset(ps, t[1], t[2], t[3]) :
                               t \in PassTriples(ps) })

\* a planned kernel of several passes run by several work-items that handle
\* several butterflies each
C25_Witness ==
  /\ pc = "kernel"
  /\ Len(passes) >= 3
  /\ \E p \in 1..Len(passes) :
       /\ passes[p].workGroupSize > 1
       /\ passes[p].numButterfly > 1
       /\ passes[p].algLS > 1
\* the transform of the work-group that work-item g works on
TransformOf(g) == IF numTrans > 1 THEN g \div workGroupSizePerTrans ELSE 0

\* the lds indices work-item g accesses in pass p: the stores when there is a
\* next pass, the loads when there is a previous one
LdsIndices(g, p) ==
  LET ps == passes[p]
      digits == (0..(ps.numButterfly - 1)) \X (0..(ps.radix - 1))
  IN  (IF p < Len(passes)
       THEN { LdsOff(g) + WriteOffset(ps, PassMe(g), t[1], t[2]) : t \in digits }
       ELSE {})
      \cup
      (IF p > 1
       THEN { LdsOff(g) + ReadOffset(ps, PassMe(g), t[1], t[2]) : t \in digits }
       ELSE {})

\* C26: in a kernel that declares local memory, every local-memory index a
\* work-item of the group accesses in any pass is below the declared length
\* length * numTrans, and lies in the region [t*length, (t+1)*length) of the
\* transform t < numTrans of that work-item, so the regions of the transforms
\* of one work-group do not overlap.
C26_LdsInBounds ==
  (pc \in {"kernel", "reused", "written"} /\ Len(passes) > 1) =>
    \A g \in 0..(fft_SIMD - 1) :
      /\ TransformOf(g) < numTrans
      /\ \A p \in 1..Len(passes) :
           \A a \in LdsIndices(g, p) :
             /\ a < LdsSize
             /\ TransformOf(g) * length <= a
             /\ a < (TransformOf(g) + 1) * length

\* a kernel of several passes with several transforms per work-group and
\* several work-items per transform
C26_Witness ==
  /\ pc = "kernel"
  /\ Len(passes) > 1
  /\ numTrans > 1
  /\ workGroupSizePerTrans > 1
\* C24 (as claimed): for every pass at position > 0, every work-item,
\* butterfly and digit j >= 1, the twiddle index the pass emits is at most
\* L - 2 and is the position at which the table handed to the kernel holds
\* the factor of that stage for k = (numButterfly*me + i) mod LS and j.
C24_TwiddleIndex ==
  (pc \in {"kernel", "reused", "written"} /\ length > 1) =>
    \A p \in 2..Len(passes) :
      LET ps == passes[p]
      IN  \A me \in 0..(ps.workGroupSize - 1) :
            \A i \in 0..(ps.numButterfly - 1) :
              \A j \in 1..(ps.radix - 1) :
                LET idx == TwMulIndex(ps, me, i, j)
                IN  /\ idx <= ps.algL - 2
                    /\ KernelTwiddles.wc[idx] =
                         [stage |-> p, k |-> (ps.numButterfly * me + i) % ps.algLS,
                          j |-> j, L |-> ps.algL]
\* C27: for every transform count T, every launched work-group and every
\* work-item, rw is non-zero exactly when the transform index of the
\* work-item is below T; for real transforms that are not RC-simple rw >= 1
\* exactly when the first transform of the pair exists and rw > 1 exactly
\* when the second exists; T - batch*numTrans (T - batch*2*numTrans) is not
\* negative for a launched group.
C27_GuardMatchesIndex ==
  pc \in {"kernel", "reused"} =>
    \A T \in 1..MaxT, real \in BOOLEAN :
      \A batch \in 0..(LaunchedGroups(T, real) - 1) :
        /\ batch * (IF real THEN 2 * numTrans ELSE numTrans) <= T
        /\ \A me \in 0..(fft_SIMD - 1) :
             LET rw == RwGuard(real, T, batch, me)
             IN  IF real
                 THEN /\ rw >= 1 <=> TransformIndex(TRUE, batch, me, FALSE) < T
                      /\ rw > 1 <=> TransformIndex(TRUE, batch, me, TRUE) < T
                 ELSE rw # 0 <=> TransformIndex(FALSE, batch, me, FALSE) < T

\* a launch of several groups of a real transform whose last group has
\* work-items with the first transform only and with none, and whose first
\* group has a work-item with both
C27_Witness ==
  /\ pc = "kernel"
  /\ \E T \in 1..MaxT :
       /\ LaunchedGroups(T, TRUE) >= 2
       /\ \E m1, m2 \in 0..(fft_SIMD - 1) :
            /\ RwGuard(TRUE, T, LaunchedGroups(T, TRUE) - 1, m1) = 1
            /\ RwGuard(TRUE, T, LaunchedGroups(T, TRUE) - 1, m2) = 0
       /\ \E m3 \in 0..(fft_SIMD - 1) : RwGuard(TRUE, T, 0, m3) >= 2
\* the places of statement st in a pass body
Places(body, st) == { k \in DOMAIN body : body[k] = st }

\* C21: when the 3-step twiddle is enabled, in each generated direction
\* exactly one pass multiplies by the large twiddle table, once: the first
\* pass before its butterflies when the front flag is set, otherwise the
\* last pass after its butterflies (a single-pass kernel once, in its only
\* pass); and a pass call is handed the large table exactly when the
\* signature of the pass declares it.
C21_OneLargeTwiddlePass ==
  kern.generated =>
    \A d \in DOMAIN kern.passes :
      LET fns == kern.passes[d]
          n   == Len(passes)
          the == IF kern.front THEN 1 ELSE n
      IN  /\ \A p \in 1..n : kern.calls[d][p].twLargeArg = fns[p].twLargeParam
          /\ kern.tw3 =>
               /\ { p \in 1..n : Places(fns[p].body, "SR_TWMUL_3STEP") # {} } = {the}
               /\ Cardinality(Places(fns[the].body, "SR_TWMUL_3STEP")) = 1
               /\ \A k \in Places(fns[the].body, "SR_TWMUL_3STEP"),
                     b \in Places(fns[the].body, "Butterfly") :
                     IF kern.front THEN k < b ELSE k > b

\* a kernel of three passes generated in both directions with the large
\* twiddle multiplication at the end
C21_Witness ==
  /\ kern.generated
  /\ kern.tw3
  /\ ~kern.front
  /\ Len(passes) >= 3
  /\ DOMAIN kern.passes = {0, 1}
  /\ kern.calls[1][Len(passes)].twLargeArg
\* C28: every barrier of the kernel is reached by all work-items of the
\* work-group the same number of times: no barrier lies in a block guarded
\* by rw or me, and in realSpecial mode no work-item waits at a barrier
\* while another work-item of its group has left the loop by the early
\* break.
C28_BarriersUniform ==
  /\ pc \in {"kernel", "special", "running"} =>
       \A k \in DOMAIN Program : Program[k].op = "barrier" => ~Program[k].guarded
  /\ pc = "special" =>
       ~ \E g, h \in DOMAIN wi : AtBarrier(wi[g]) /\ Exited(wi[h])
\* C22: a thread that got the plan and its lock from getPlan(h) never takes
\* the lock and never uses the plan after deletePlan(h) has freed them.
C22_NoUseAfterDelete ==
  conc.started => conc.useAfterFree = { }

\* C29: the repository lock and the plan lock are not taken in conflicting
\* orders: once the two threads have started, the kernel generation of
\* thread A and the deletePlan of thread B both return.
C29_BothReturn ==
  conc.started ~> (conc.started /\ conc.A.pc = "returned" /\ conc.B.pc = "returned")
====
